---- MODULE Spec2Model ----
(***************************************************************************)
(* Model of the initiative manager (src/src/main.rs, src/src/utils.rs).    *)
(*                                                                         *)
(* The program is an iced Application: `update` handles one Message at a   *)
(* time and `view` renders the state and decides which Messages the        *)
(* widgets can emit next.  Each action below is one arm of `update`,       *)
(* guarded by the condition under which `view` offers its Message.         *)
(*                                                                         *)
(* Conventions: list positions and `turn` are 0-based as in the source;    *)
(* At(es, i) reads position i.  Text buffers are sequences of one-letter   *)
(* strings.  Hidden<T> is the record [v, hidden].                          *)
(***************************************************************************)
EXTENDS Integers, Sequences, FiniteSets, TLC



\* ---------------------------------------------------------------- bounds

\* Longest combatant list Spec and SpecAll build.
MaxEntities == 3

\* Longest combatant list SpecTurn builds.
MaxRows == 2

\* Most HighlightConcentration Messages in flight at once.
MaxCommands == 1

\* Time runs up to MaxTicks half highlight periods
MaxTicks == 4

\* Most highlights that overlap
MaxChains == 2

\* The dice expressions resolved: up to MaxDice dice of up to MaxSides
\* sides, plus a bonus of up to MaxBonus
MaxDice == 3
MaxSides == 6
MaxBonus == 2

\* TLC's integers are 32 bits wide, so the u32 and i32 of the source are
\* modelled at a reduced width: u32 is 0..U32Max, i32 is I32Min..I32Max.
U32Max == 255
I32Max == 127
I32Min == (0 - I32Max) - 1

\* ------------------------------------------------------- program constants

\* gen_range(1..=20): the initiative die
D20 == 20

\* Duration::from_millis(1400): how long a concentration highlight lasts
HighlightMs == 1400

\* ------------------------------------------------------------------ state

VARIABLES
    entities,       \* InitiativeManager.entities : Vec<Entity>
    turn,           \* InitiativeManager.turn : usize
    new_entity,     \* InitiativeManager.new_entity : NewEntity
    save_mode,      \* InitiativeManager.save_mode : SaveMode
    encounter_dir,  \* files of ENCOUNTER_DIR: file stem -> Vec<Enemy>
    party_dir,      \* files of PARTY_DIR: file stem -> Vec<Pc>
    panicked,       \* TRUE once a handler has aborted (unwrap, overflow, index)
    highlight_state,\* InitiativeManager.highlight_state : Option<usize> (the style is not kept)
    commands,       \* the HighlightConcentration Messages the runtime still has to deliver
    now,            \* Instant::now(), in milliseconds since construction
    dm_view,        \* InitiativeManager.dm_view.value : bool
    last            \* history: the Message handled last and the state before it

vars == <<entities, turn, new_entity, save_mode, encounter_dir, party_dir, panicked,
          highlight_state, commands, now, dm_view, last>>

\* ---------------------------------------------------------------- helpers

None == [some |-> FALSE]
Some(x) == [some |-> TRUE, v |-> x]

Hidden(x, h) == [v |-> x, hidden |-> h]

At(es, i) == es[i + 1]

Min(S) == CHOOSE x \in S : \A y \in S : x <= y

Max2(a, b) == IF a >= b THEN a ELSE b

\* usize::saturating_sub
saturating_sub(a, b) == IF a >= b THEN a - b ELSE 0

\* usize::checked_rem: None when the divisor is zero
checked_rem(a, b) == IF b = 0 THEN None ELSE Some(a % b)

unwrap_or(opt, d) == IF opt.some THEN opt.v ELSE d

\* Vec::insert(index, x): x ends at position index, the rest shifts right
vec_insert(es, index, x) ==
    SubSeq(es, 1, index) \o <<x>> \o SubSeq(es, index + 1, Len(es))

\* Vec::remove(i): the elements after position i shift left
vec_remove(es, i) ==
    SubSeq(es, 1, i) \o SubSeq(es, i + 2, Len(es))

\* Mutant of vec_swap: position i receives the element of j, j keeps its own
vec_swap_overwrite(es, i, j) ==
    [k \in 1..Len(es) |-> IF k = i + 1 THEN es[j + 1] ELSE es[k]]

\* slice::swap(i, j)
vec_swap(es, i, j) ==
    [k \in 1..Len(es) |->
        IF k = i + 1 THEN es[j + 1] ELSE IF k = j + 1 THEN es[i + 1] ELSE es[k]]

\* ------------------------------------------------------------ text parsing

Empty == <<>>

Digits == {"0", "1", "2", "3", "4", "5", "6", "7", "8", "9"}

DigitVal(c) ==
    CASE c = "0" -> 0 [] c = "1" -> 1 [] c = "2" -> 2 [] c = "3" -> 3 [] c = "4" -> 4
      [] c = "5" -> 5 [] c = "6" -> 6 [] c = "7" -> 7 [] c = "8" -> 8 [] c = "9" -> 9

AllDigits(s) == Len(s) > 0 /\ \A k \in 1..Len(s) : s[k] \in Digits

RECURSIVE DigitsValue(_)
DigitsValue(s) ==
    IF s = <<>> THEN 0
    ELSE 10 * DigitsValue(SubSeq(s, 1, Len(s) - 1)) + DigitVal(s[Len(s)])

DigitChar(d) ==
    CASE d = 0 -> "0" [] d = 1 -> "1" [] d = 2 -> "2" [] d = 3 -> "3" [] d = 4 -> "4"
      [] d = 5 -> "5" [] d = 6 -> "6" [] d = 7 -> "7" [] d = 8 -> "8" [] d = 9 -> "9"

\* The decimal text of the number n, as it is typed into a text input
RECURSIVE Decimal(_)
Decimal(n) ==
    IF n < 10 THEN <<DigitChar(n)>>
    ELSE Append(Decimal(n \div 10), DigitChar(n % 10))

\* str::parse::<u32>: an optional '+', then digits, value at most u32::MAX
parse_u32(s) ==
    LET body == IF s # <<>> /\ s[1] = "+" THEN Tail(s) ELSE s
    IN  IF AllDigits(body) /\ DigitsValue(body) <= U32Max
        THEN Some(DigitsValue(body)) ELSE None

\* str::parse::<i32>: an optional '+' or '-', then digits, value in the i32 range
parse_i32(s) ==
    LET neg  == s # <<>> /\ s[1] = "-"
        body == IF s # <<>> /\ s[1] \in {"+", "-"} THEN Tail(s) ELSE s
        val  == IF neg THEN 0 - DigitsValue(body) ELSE DigitsValue(body)
    IN  IF AllDigits(body) /\ val >= I32Min /\ val <= I32Max
        THEN Some(val) ELSE None

IsSpace(c) == c = " "

\* First position >= i of s that holds no whitespace (Len(s) + 1 if none)
SkipSpace(s, i) ==
    LET S == {k \in i..Len(s) : ~IsSpace(s[k])}
    IN  IF S = {} THEN Len(s) + 1 ELSE Min(S)

\* Length of the match of PLUS_REGEX (\s*\+\s*) that starts at position i, 0 if none
PlusMatchLen(s, i) ==
    LET j == SkipSpace(s, i)
    IN  IF j <= Len(s) /\ s[j] = "+" THEN SkipSpace(s, j + 1) - i ELSE 0

\* Regex::split: the pieces of s between the leftmost matches of PLUS_REGEX
RECURSIVE PlusSplitFrom(_, _, _)
PlusSplitFrom(s, i, start) ==
    IF i > Len(s) THEN <<SubSeq(s, start, Len(s))>>
    ELSE LET m == PlusMatchLen(s, i)
         IN  IF m > 0
             THEN <<SubSeq(s, start, i - 1)>> \o PlusSplitFrom(s, i + m, i + m)
             ELSE PlusSplitFrom(s, i + 1, start)

PlusSplit(s) == PlusSplitFrom(s, 1, 1)

\* str::split("d"): the pieces of s between the letters d
RECURSIVE DSplitFrom(_, _, _)
DSplitFrom(s, i, start) ==
    IF i > Len(s) THEN <<SubSeq(s, start, Len(s))>>
    ELSE IF s[i] = "d"
         THEN <<SubSeq(s, start, i - 1)>> \o DSplitFrom(s, i + 1, i + 1)
         ELSE DSplitFrom(s, i + 1, start)

DSplit(s) == DSplitFrom(s, 1, 1)

\* HpPart values; Err is the parse failure
HpErr == [kind |-> "Err"]
HpNumber(n) == [kind |-> "Number", n |-> n]
HpRoll(n, d) == [kind |-> "Roll", n |-> n, d |-> d]
HpRollInProgress(n) == [kind |-> "RollInProgress", n |-> n]

\* <HpPart as FromStr>::from_str
HpPart_from_str(s) ==
    IF s = <<>> THEN HpNumber(0)
    ELSE LET pieces == DSplit(s)
             n == parse_u32(pieces[1])
         IN  IF ~n.some THEN HpErr
             ELSE IF Len(pieces) > 2 THEN HpErr
             ELSE IF Len(pieces) = 1 THEN HpNumber(n.v)
             ELSE IF pieces[2] = <<>> THEN HpRollInProgress(n.v)
             ELSE LET d == parse_u32(pieces[2])
                  IN  IF d.some THEN HpRoll(n.v, d.v) ELSE HpErr

\* <Hp as FromStr>::from_str: Some(parts), or None when a part fails to parse
Hp_from_str(s) ==
    LET parts == [k \in 1..Len(PlusSplit(s)) |-> HpPart_from_str(PlusSplit(s)[k])]
    IN  IF \E k \in 1..Len(parts) : parts[k].kind = "Err" THEN None ELSE Some(parts)

\* Hp::new
Hp_new(hp) == <<HpNumber(hp)>>

\* Outcomes of resolving a dice expression: a number, None (an unfinished
\* roll), or an abort of the program.
ResPanic == [kind |-> "Panic"]
ResNone == [kind |-> "None"]
ResSome(x) == [kind |-> "Some", v |-> x]

\* u32 addition: the exact sum when it fits; otherwise the build decides
\* (overflow checks abort, without them the sum wraps)
u32_add(a, b) ==
    IF a + b <= U32Max THEN {ResSome(a + b)}
    ELSE {ResPanic, ResSome((a + b) % (U32Max + 1))}

\* HpPart::into_number: every value the part can resolve to.  A roll sums n
\* draws of gen_range(1..=d); gen_range aborts on the empty range 1..=0.
HpPart_into_number(p) ==
    CASE p.kind = "Number" -> {ResSome(p.n)}
      [] p.kind = "Roll" ->
            IF p.n = 0 THEN {ResSome(0)}
            ELSE IF p.d = 0 THEN {ResPanic}
            ELSE UNION {u32_add(x, 0) : x \in p.n .. (p.n * p.d)}
      [] p.kind = "RollInProgress" -> {ResNone}

\* Hp::into_number: fold_options(0, a + b) over the parts, left to right,
\* stopping at the first None
RECURSIVE Hp_fold(_, _, _)
Hp_fold(parts, k, acc) ==
    IF k > Len(parts) THEN {ResSome(acc)}
    ELSE UNION {
        IF o.kind # "Some" THEN {o}
        ELSE UNION { IF r.kind # "Some" THEN {r} ELSE Hp_fold(parts, k + 1, r.v)
                     : r \in u32_add(acc, o.v) }
        : o \in HpPart_into_number(parts[k]) }

Hp_into_number(parts) == Hp_fold(parts, 1, 0)

\* The number of rng.gen_range calls Hp::into_number makes for the parts:
\* the parts are resolved from the left, a roll of n dice draws n times (the
\* first draw of a die without sides aborts), and the first unfinished roll
\* ends the resolution
RECURSIVE dice_drawn(_)
dice_drawn(parts) ==
    IF parts = <<>> THEN 0
    ELSE LET p == Head(parts)
         IN  IF p.kind = "RollInProgress" THEN 0
             ELSE IF p.kind = "Roll" /\ p.n > 0 /\ p.d = 0 THEN 1
             ELSE (IF p.kind = "Roll" THEN p.n ELSE 0) + dice_drawn(Tail(parts))

\* ------------------------------------------------------------ data model

\* ToggleButtonState keeps only its value; button, scroll and focus states
\* of the widgets are not modelled.

\* Entity::new.  uid is the identity of the Entity value (history only: the
\* source never reads it); it lets a property follow one combatant through
\* the list.
Entity_new(uid, name, hp, initiative) ==
    [ uid               |-> uid,
      name              |-> name,
      hp                |-> hp,
      damage            |-> Empty,
      heal              |-> Empty,
      reaction_free     |-> TRUE,
      concentrating     |-> FALSE,
      legendary_actions |-> None,
      initiative        |-> initiative ]

\* NewEntity::default
NewEntity_default ==
    [ name     |-> Hidden("", FALSE),
      init     |-> Hidden(Empty, FALSE),
      hp       |-> Hidden(Empty, FALSE),
      leg_acts |-> Hidden(Empty, FALSE) ]

Enemy(name, hp, legendary_actions, initiative) ==
    [ name |-> name, hp |-> hp, legendary_actions |-> legendary_actions,
      initiative |-> initiative ]

Pc(name, hp) == [name |-> name, hp |-> hp]

\* SaveMode
SM_None == [kind |-> "None"]
SM_SaveEncounter(text) == [kind |-> "SaveEncounter", text |-> text]
SM_DeleteEncounter(name, text) == [kind |-> "DeleteEncounter", name |-> name, text |-> text]
SM_LoadEncounter(name, rows) == [kind |-> "LoadEncounter", name |-> name, rows |-> rows]
SM_SaveParty(text) == [kind |-> "SaveParty", text |-> text]
SM_DeleteParty(name, text) == [kind |-> "DeleteParty", name |-> name, text |-> text]
SM_LoadParty(name, rows) == [kind |-> "LoadParty", name |-> name, rows |-> rows]

\* The smallest identity no combatant of es carries (0 when no history is kept)
FreshUid(es) ==
    IF last.msg = "Off" THEN 0
    ELSE Min({u \in 1..(Len(es) + 1) : \A k \in 1..Len(es) : es[k].uid # u})

\* ------------------------------------------------- insertion (the engine)

\* Mutant of position_less: the comparison is <= instead of <
position_less_or_equal(es, initiative) ==
    LET S == {k \in 0..(Len(es) - 1) : At(es, k).initiative.v <= initiative}
    IN  IF S = {} THEN None ELSE Some(Min(S))

\* Iterator::position(|e| e.initiative.0 < initiative): the first position
\* whose initiative is strictly less, None if there is none
position_less(es, initiative) ==
    LET S == {k \in 0..(Len(es) - 1) : At(es, k).initiative.v < initiative}
    IN  IF S = {} THEN None ELSE Some(Min(S))

\* Mutant of insert_index: Vec::push, the new combatant always goes last
insert_index_push(es, entity) == Len(es)

\* Mutant of insert_index: unwrap_or(0), a combatant no other is below goes first
insert_index_or_zero(es, entity) ==
    LET S == {k \in 0..(Len(es) - 1) : At(es, k).initiative.v < entity.initiative.v}
    IN  IF S = {} THEN 0 ELSE Min(S)

\* The index insert_entity inserts at
insert_index(es, entity) ==
    unwrap_or(position_less(es, entity.initiative.v), Len(es))

\* Mutant of insert_turn: the comparison is > instead of >=
insert_turn_strict(t, index) == IF t > index THEN t + 1 ELSE t

\* The turn after an insertion at index
insert_turn(t, index) == IF t >= index THEN t + 1 ELSE t

\* InitiativeManager::insert_entity
insert_entity(es, t, entity) ==
    LET index == insert_index(es, entity)
    IN  [ entities |-> vec_insert(es, index, entity),
          turn     |-> insert_turn(t, index) ]

\* for_each(|e| insert_entity(..)): the new combatants are inserted one by
\* one, in the order of the rows; each gets its identity as it is inserted
RECURSIVE insert_all(_, _, _)
insert_all(es, t, news) ==
    IF news = <<>> THEN [entities |-> es, turn |-> t]
    ELSE LET e == [Head(news) EXCEPT !.uid = FreshUid(es)]
             r == insert_entity(es, t, e)
         IN  insert_all(r.entities, r.turn, Tail(news))

\* ------------------------------------------------------------------- view

n_entities == Len(entities)

\* The rows view renders: row i shows the combatant at list position
\* idx = (i + turn) % n_entities, and its widgets carry idx in their Messages
Rows == 0..(n_entities - 1)

row_idx(i) == (i + turn) % n_entities

\* up_down before array_chunks: false, then every window's equality twice,
\* then false
up_down_flat(es) ==
    LET n == Len(es)
        len == IF n = 0 THEN 2 ELSE 2 * n
    IN  [j \in 1..len |->
            IF j = 1 \/ j = len THEN FALSE
            ELSE es[j \div 2].initiative.v = es[(j \div 2) + 1].initiative.v]

\* up_down: array_chunks::<2>() of the flat vector, one [move_up, move_down]
\* pair per list position
up_down(es) ==
    LET flat == up_down_flat(es)
    IN  [c \in 1..(Len(flat) \div 2) |-> <<flat[2 * c - 1], flat[2 * c]>>]

\* Mutant of move_up: the flags are read at the row of the rotated display
move_up_rotated(es, idx) ==
    At(up_down(es), (idx + Len(es) - (turn % Len(es))) % Len(es))[1]

move_up(es, idx) == At(up_down(es), idx)[1]

move_down(es, idx) == At(up_down(es), idx)[2]

\* roman::to: the Roman numeral of 1..3999, None otherwise
RomanSteps ==
    << <<1000, <<"M">> >>, <<900, <<"C", "M">> >>, <<500, <<"D">> >>,
       <<400, <<"C", "D">> >>, <<100, <<"C">> >>, <<90, <<"X", "C">> >>,
       <<50, <<"L">> >>, <<40, <<"X", "L">> >>, <<10, <<"X">> >>,
       <<9, <<"I", "X">> >>, <<5, <<"V">> >>, <<4, <<"I", "V">> >>,
       <<1, <<"I">> >> >>

RECURSIVE roman_digits(_, _)
roman_digits(n, k) ==
    IF n = 0 THEN <<>>
    ELSE IF n >= RomanSteps[k][1]
         THEN RomanSteps[k][2] \o roman_digits(n - RomanSteps[k][1], k)
         ELSE roman_digits(n, k + 1)

roman_to(n) == IF n >= 1 /\ n <= 3999 THEN Some(roman_digits(n, 1)) ELSE None

\* censor_name: every word of the name becomes random lower-case letters,
\* as many as the word has or one more.  The names here are one word; the
\* outcomes are told apart by the number of letters.
censor_name(name) == {[letters |-> l] : l \in {Len(name), Len(name) + 1}}

\* What a row of the table shows of the combatant e, with the DM view on or
\* off: the renderings of the name button (a set: the censored name is
\* random), the hp text, the legendary-actions cell (the numeral of the
\* remaining actions and whether its buttons are wired), the initiative text
shown_name(e, dm) ==
    IF dm \/ ~e.name.hidden THEN {[text |-> e.name.v]} ELSE censor_name(e.name.v)

shown_hp(e, dm) ==
    IF dm \/ ~e.hp.hidden THEN Decimal(e.hp.v) ELSE <<"?", "?">>

shown_legendary_actions(e, dm) ==
    IF e.legendary_actions.some
    THEN LET tot == e.legendary_actions.v.v.tot
             left == e.legendary_actions.v.v.left
         IN  Some([minus |-> left # 0,
                   text  |-> unwrap_or(roman_to(left), <<>>),
                   plus  |-> left # tot])
    ELSE None

shown_initiative(e, dm) == Decimal(e.initiative.v)

\* The row view highlights: highlight_state's index moved by the rotation,
\* (idx as isize - turn as isize).wrapping_rem_euclid(n_entities as isize).
\* The remainder aborts on a zero divisor; without a highlight nothing is
\* computed.
highlight(hs, t, n) ==
    IF ~hs.some THEN ResNone
    ELSE IF n = 0 THEN ResPanic
    ELSE ResSome((((hs.v - t) % n) + n) % n)

\* The combatant row i of the table shows: the list is drawn from turn on,
\* start.chain(end)
row_entity(es, t, i) == (SubSeq(es, t + 1, Len(es)) \o SubSeq(es, 1, t))[i + 1]

\* Mutant of new_ready: the hp text is not looked at
new_ready_name_only == new_entity.name.v # ""

\* new_ready: the condition under which view wires NewEntitySubmit to the
\* submit button and the four text inputs
new_ready ==
    LET text == new_entity.hp.v
        hp_empty == text = Empty
        parsed == Hp_from_str(text)
        hp_parses == parsed.some /\ \E o \in Hp_into_number(parsed.v) : o.kind = "Some"
        hp_ready == hp_empty \/ hp_parses
        name_ready == new_entity.name.v # ""
    IN  hp_ready /\ name_ready

\* ---------------------------------------------------------------- update

\* The history after a Message: the Message (msg, and its index idx or its
\* name), the state it found (form is the new-combatant form, sent the
\* number of Commands issued and not yet delivered, mode the save mode), the
\* number of gen_range draws made for the hp text while it was handled
\* (drawn: view and NewEntitySubmit resolve the hp text), the list as it was when an encounter
\* was last saved under a name that had no file (saved, forgotten once that
\* file is written again or removed or its preview is edited) and, where
\* runs are tracked, the turns the latest run of consecutive NextTurn
\* Messages that began at turn = 0 started its steps from, and, where hits
\* are watched, the combatant whose damage issued the latest highlight
\* Command (hit) and, where pairs of steps are kept, the Message before this
\* one and the state it found (before)
LogAs(msg, idx, name) ==
    last' = IF last.msg = "Off" THEN last
            ELSE [msg |-> msg, idx |-> idx, name |-> name,
                  entities |-> entities, turn |-> turn,
                  form |-> new_entity,
                  drawn |-> IF msg = "view"
                               \/ (msg = "NewEntitySubmit" /\ new_entity.name.v # "")
                            THEN dice_drawn(unwrap_or(Hp_from_str(new_entity.hp.v), <<>>))
                            ELSE 0,
                  sent |-> Len(commands),
                  mode |-> save_mode,
                  saved |->
                      LET about(n) == last.saved.some /\ last.saved.v.name = n
                      IN  IF msg = "SaveEncounter" /\ save_mode.kind = "SaveEncounter"
                               /\ save_mode.text # ""
                          THEN IF save_mode.text \notin DOMAIN encounter_dir
                               THEN Some([name |-> save_mode.text,
                                          entities |-> entities, turn |-> turn])
                               ELSE IF about(save_mode.text) THEN None ELSE last.saved
                          ELSE IF msg = "DeleteEncounter"
                                    /\ save_mode.kind = "DeleteEncounter"
                                    /\ save_mode.name = name /\ about(name)
                          THEN None
                          ELSE IF msg = "EncounterHide"
                                    /\ save_mode.kind = "LoadEncounter"
                                    /\ about(save_mode.name)
                          THEN None
                          ELSE last.saved,
                  track |-> last.track,
                  run |-> IF last.track /\ msg = "NextTurn"
                          THEN IF turn = 0 THEN <<0>>
                               ELSE IF last.run # <<>> THEN Append(last.run, turn)
                               ELSE <<>>
                          ELSE <<>>,
                  watch |-> last.watch,
                  hit |-> IF last.watch /\ msg = "Damage" /\ idx < Len(entities)
                               /\ At(entities, idx).concentrating
                               /\ parse_u32(At(entities, idx).damage).some
                          THEN Some(At(entities, idx).uid)
                          ELSE last.hit,
                  pairs |-> last.pairs,
                  before |-> IF last.pairs
                             THEN [msg |-> last.msg, entities |-> last.entities,
                                   turn |-> last.turn]
                             ELSE last.before]

Log(msg, idx) == LogAs(msg, idx, "")

LogNamed(msg, name) == LogAs(msg, -1, name)

saveVars == <<save_mode, encounter_dir, party_dir>>

\* What the concentration highlight, the clock and the DM-view toggle
\* consist of
fxVars == <<highlight_state, commands, now, dm_view>>

\* A handler that aborts: the process ends, nothing more is written
Abort ==
    /\ panicked' = TRUE
    /\ UNCHANGED <<entities, turn, new_entity, saveVars, fxVars>>

\* Message::ToggleVisibility
ToggleVisibility ==
    /\ ~panicked
    /\ Log("ToggleVisibility", -1)
    /\ dm_view' = ~dm_view
    /\ UNCHANGED <<entities, turn, new_entity, saveVars, panicked,
                   highlight_state, commands, now>>

\* Mutant of delete_turn: the turn is never adjusted
delete_turn_kept(t, i) == t

\* The turn after the combatant at position i has been removed
delete_turn(t, i) == IF i < t THEN t - 1 ELSE t

\* Message::DeleteEntity(i)
DeleteEntity(i) ==
    /\ ~panicked
    /\ Log("DeleteEntity", i)
    /\ IF i >= Len(entities) THEN Abort
       ELSE /\ entities' = vec_remove(entities, i)
            /\ turn' = delete_turn(turn, i)
            /\ UNCHANGED <<new_entity, saveVars, panicked, fxVars>>

\* Message::MoveUp(i)
MoveUp(i) ==
    /\ ~panicked
    /\ Log("MoveUp", i)
    /\ IF i = 0 \/ i >= Len(entities) THEN Abort
       ELSE /\ entities' = vec_swap(entities, i, i - 1)
            /\ UNCHANGED <<turn, new_entity, saveVars, panicked, fxVars>>

\* Message::MoveDown(i)
MoveDown(i) ==
    /\ ~panicked
    /\ Log("MoveDown", i)
    /\ IF i + 1 >= Len(entities) THEN Abort
       ELSE /\ entities' = vec_swap(entities, i, i + 1)
            /\ UNCHANGED <<turn, new_entity, saveVars, panicked, fxVars>>

\* Mutant of next_turn: (turn + 1) % len, which aborts on a zero divisor
next_turn_unchecked(t, len) ==
    IF len = 0 THEN ResPanic ELSE ResSome((t + 1) % len)

\* Mutant of next_turn: the turn stops at the last position instead of wrapping
next_turn_clamped(t, len) ==
    ResSome(IF len = 0 THEN 0 ELSE IF t + 1 < len THEN t + 1 ELSE len - 1)

\* The turn NextTurn moves to: (turn + 1).checked_rem(len).unwrap_or(0).
\* The result is an outcome, so that a remainder that aborts can be told
\* from one that yields a number.
next_turn(t, len) == ResSome(unwrap_or(checked_rem(t + 1, len), 0))

\* Mutant of start_turn: the reset also ends the combatant's concentration
start_turn_conc(e) ==
    [e EXCEPT !.reaction_free = TRUE,
              !.concentrating = FALSE,
              !.legendary_actions =
                  IF @.some
                  THEN Some(Hidden([tot |-> @.v.v.tot, left |-> @.v.v.tot], @.v.hidden))
                  ELSE @]

\* The start-of-turn reset NextTurn applies to the combatant it lands on
start_turn(e) ==
    [e EXCEPT !.reaction_free = TRUE,
              !.legendary_actions =
                  IF @.some
                  THEN Some(Hidden([tot |-> @.v.v.tot, left |-> @.v.v.tot], @.v.hidden))
                  ELSE @]

\* Message::NextTurn
NextTurn ==
    /\ ~panicked
    /\ Log("NextTurn", -1)
    /\ LET t == next_turn(turn, Len(entities))
       IN  IF t.kind = "Panic" THEN Abort
           ELSE /\ turn' = t.v
                /\ entities' = IF t.v < Len(entities)
                               THEN [entities EXCEPT ![t.v + 1] = start_turn(@)]
                               ELSE entities
                /\ UNCHANGED <<new_entity, saveVars, panicked, fxVars>>

\* Mutant of prev_turn: plain subtraction at turn = 0, which leaves the range
\* of usize on the empty list
prev_turn_wrapping(t, len) == IF t = 0 THEN len - 1 ELSE t - 1

\* Mutant of prev_turn: no wrap to the last position at turn = 0
prev_turn_stay(t, len) == IF t = 0 THEN 0 ELSE t - 1

\* The turn PrevTurn moves to
prev_turn(t, len) ==
    IF t = 0 THEN saturating_sub(len, 1) ELSE saturating_sub(t, 1)

\* Message::PrevTurn
PrevTurn ==
    /\ ~panicked
    /\ Log("PrevTurn", -1)
    /\ turn' = prev_turn(turn, Len(entities))
    /\ UNCHANGED <<entities, new_entity, saveVars, panicked, fxVars>>

\* Message::NewName(name)
NewName(name) ==
    /\ ~panicked
    /\ Log("NewName", -1)
    /\ new_entity' = [new_entity EXCEPT !.name.v = name]
    /\ UNCHANGED <<entities, turn, saveVars, panicked, fxVars>>

\* Mutant of init_accepted: every text is taken
init_accepted_any(init) == TRUE

\* The texts NewInit takes: empty, a sign, or an i32
init_accepted(init) ==
    init = Empty \/ init = <<"-">> \/ init = <<"+">> \/ parse_i32(init).some

\* Message::NewInit(init)
NewInit(init) ==
    /\ ~panicked
    /\ Log("NewInit", -1)
    /\ new_entity' =
          IF init_accepted(init)
          THEN [new_entity EXCEPT !.init.v = init]
          ELSE new_entity
    /\ UNCHANGED <<entities, turn, saveVars, panicked, fxVars>>

\* Message::NewHp(hp)
NewHp(hp) ==
    /\ ~panicked
    /\ Log("NewHp", -1)
    /\ new_entity' =
          IF hp = Empty \/ Hp_from_str(hp).some
          THEN [new_entity EXCEPT !.hp.v = hp]
          ELSE new_entity
    /\ UNCHANGED <<entities, turn, saveVars, panicked, fxVars>>

\* Message::NewLas(las)
NewLas(las) ==
    /\ ~panicked
    /\ Log("NewLas", -1)
    /\ new_entity' =
          IF las = Empty \/ parse_u32(las).some
          THEN [new_entity EXCEPT !.leg_acts.v = las]
          ELSE new_entity
    /\ UNCHANGED <<entities, turn, saveVars, panicked, fxVars>>

\* i32 addition: the exact sum when it fits; otherwise the build decides
\* (overflow checks abort, without them the sum wraps)
i32_add(a, b) ==
    IF a + b <= I32Max /\ a + b >= I32Min THEN {ResSome(a + b)}
    ELSE {ResPanic,
          ResSome(((a + b - I32Min) % (2 * (I32Max + 1))) + I32Min)}

\* The hp of the submitted combatant: the outcomes of
\* (if hp.is_empty() { Hp::new(0) } else { hp.parse().unwrap() }).into_number().unwrap_or(0)
submit_hp(text) ==
    IF text = Empty
    THEN {IF o.kind = "None" THEN ResSome(0) ELSE o : o \in Hp_into_number(Hp_new(0))}
    ELSE IF ~Hp_from_str(text).some THEN {ResPanic}
    ELSE {IF o.kind = "None" THEN ResSome(0) ELSE o
             : o \in Hp_into_number(Hp_from_str(text).v)}

\* The initiative of the submitted combatant for the d20 roll drawn
submit_init(text, roll) ==
    IF text = Empty \/ text[1] \in {"+", "-"}
    THEN LET modifier == unwrap_or(parse_i32(text), 0)
         IN  {IF o.kind = "Some" THEN ResSome(Max2(0, o.v)) ELSE o
                 : o \in i32_add(roll, modifier)}
    ELSE IF parse_u32(text).some THEN {ResSome(parse_u32(text).v)} ELSE {ResPanic}

\* The legendary-action budget of the submitted combatant
submit_leg_acts(text, hidden) ==
    IF text = Empty THEN ResSome(None)
    ELSE IF ~parse_u32(text).some THEN ResPanic
    ELSE IF parse_u32(text).v # 0
         THEN ResSome(Some(Hidden([tot |-> parse_u32(text).v,
                                   left |-> parse_u32(text).v], hidden)))
         ELSE ResSome(None)

\* Message::NewEntitySubmit, for the d20 roll and the hp resolution drawn
NewEntitySubmit(roll, hp, init) ==
    /\ ~panicked
    /\ Log("NewEntitySubmit", -1)
    /\ roll \in 1..D20
    /\ hp \in submit_hp(new_entity.hp.v)
    /\ init \in submit_init(new_entity.init.v, roll)
    /\ IF new_entity.name.v = ""
       THEN UNCHANGED <<entities, turn, new_entity, saveVars, panicked, fxVars>>
       ELSE LET las == submit_leg_acts(new_entity.leg_acts.v, new_entity.leg_acts.hidden)
            IN  IF hp.kind = "Panic" \/ init.kind = "Panic" \/ las.kind = "Panic"
                THEN Abort
                ELSE LET entity ==
                             [Entity_new(FreshUid(entities),
                                         Hidden(new_entity.name.v, new_entity.name.hidden),
                                         Hidden(hp.v, new_entity.hp.hidden),
                                         Hidden(init.v, new_entity.init.hidden))
                                 EXCEPT !.legendary_actions = las.v]
                         r == insert_entity(entities, turn, entity)
                     IN  /\ entities' = r.entities
                         /\ turn' = r.turn
                         /\ new_entity' = NewEntity_default
                         /\ UNCHANGED <<saveVars, panicked, fxVars>>

\* InitiativeManager::view, as far as it acts on the state: the highlighted
\* row is computed, which can abort, and new_ready resolves the hp text of
\* the form (parse::<Hp>().ok().and_then(into_number)) every time the window
\* is rendered, and the resolution can abort
view ==
    /\ ~panicked
    /\ Log("view", -1)
    /\ LET parsed == Hp_from_str(new_entity.hp.v)
       IN  IF highlight(highlight_state, turn, Len(entities)).kind = "Panic"
           THEN Abort
           ELSE IF ~parsed.some
           THEN UNCHANGED <<entities, turn, new_entity, saveVars, panicked, fxVars>>
           ELSE \E o \in Hp_into_number(parsed.v) :
                  /\ panicked' = (o.kind = "Panic")
                  /\ UNCHANGED <<entities, turn, new_entity, saveVars, fxVars>>

\* Message::HighlightConcentration(i, highlight_done), as update returns it
\* in a Command
HighlightConcentration_msg(i, highlight_done) ==
    [i |-> i, highlight_done |-> highlight_done]

\* Mutant of highlight_live: the highlight never runs out
highlight_live_always(highlight_done, t) == TRUE

\* Whether a highlight that ends at highlight_done is still on at time t:
\* highlight_done > now
highlight_live(highlight_done, t) == highlight_done > t

\* Message::HighlightConcentration(i, highlight_done), delivered from the
\* k-th Command in flight.  Before highlight_done the highlight is set and
\* the Message is issued again (after a sleep); from highlight_done on the
\* highlight is cleared.
HighlightConcentration(k) ==
    /\ ~panicked
    /\ k \in 1..Len(commands)
    /\ Log("HighlightConcentration", commands[k].i)
    /\ LET msg == commands[k]
           rest == SubSeq(commands, 1, k - 1) \o SubSeq(commands, k + 1, Len(commands))
       IN  IF highlight_live(msg.highlight_done, now)
           THEN /\ highlight_state' = Some(msg.i)
                /\ commands' = Append(rest, msg)
           ELSE /\ highlight_state' = None
                /\ commands' = rest
    /\ UNCHANGED <<entities, turn, new_entity, saveVars, panicked, now, dm_view>>

\* Time passes: Instant::now() is d milliseconds later
Tick(d) ==
    /\ ~panicked
    /\ d > 0
    /\ now' = now + d
    /\ UNCHANGED <<entities, turn, new_entity, saveVars, panicked,
                   highlight_state, commands, dm_view, last>>

\* Message::EditDamage(i, damage)
EditDamage(i, damage) ==
    /\ ~panicked
    /\ Log("EditDamage", i)
    /\ IF parse_u32(damage).some \/ damage = Empty
       THEN IF i >= Len(entities) THEN Abort
            ELSE /\ entities' = [entities EXCEPT ![i + 1].damage = damage]
                 /\ UNCHANGED <<turn, new_entity, saveVars, panicked, fxVars>>
       ELSE UNCHANGED <<entities, turn, new_entity, saveVars, panicked, fxVars>>

\* Mutant of damage_hp: plain subtraction modulo 2^w
damage_hp_wrapping(hp, damage) == (hp - damage + U32Max + 1) % (U32Max + 1)

\* The hit points after damage: hp.saturating_sub(damage)
damage_hp(hp, damage) == saturating_sub(hp, damage)

\* Mutant of damage_commands: the Command is issued for every combatant
damage_commands_always(cs, entity, i) ==
    Append(cs, HighlightConcentration_msg(i, now + HighlightMs))

\* The Commands after Damage(i) on entity: one more, for the highlight of
\* combatant i, if the combatant is concentrating
damage_commands(cs, entity, i) ==
    IF entity.concentrating
    THEN Append(cs, HighlightConcentration_msg(i, now + HighlightMs))
    ELSE cs

\* Message::Damage(i).  The Command is issued with highlight_done 1400 ms
\* after the time of the update.
Damage(i) ==
    /\ ~panicked
    /\ Log("Damage", i)
    /\ IF i >= Len(entities) THEN Abort
       ELSE LET entity == At(entities, i)
                damage == entity.damage
            IN  IF damage = Empty
                THEN UNCHANGED <<entities, turn, new_entity, saveVars, panicked, fxVars>>
                ELSE IF ~parse_u32(damage).some THEN Abort
                ELSE /\ entities' = [entities EXCEPT
                            ![i + 1].hp.v = damage_hp(@, parse_u32(damage).v),
                            ![i + 1].damage = Empty]
                     /\ commands' = damage_commands(commands, entity, i)
                     /\ UNCHANGED <<turn, new_entity, saveVars, panicked,
                                    highlight_state, now, dm_view>>

\* Message::EditHealing(i, healing)
EditHealing(i, healing) ==
    /\ ~panicked
    /\ Log("EditHealing", i)
    /\ IF parse_u32(healing).some \/ healing = Empty
       THEN IF i >= Len(entities) THEN Abort
            ELSE /\ entities' = [entities EXCEPT ![i + 1].heal = healing]
                 /\ UNCHANGED <<turn, new_entity, saveVars, panicked, fxVars>>
       ELSE UNCHANGED <<entities, turn, new_entity, saveVars, panicked, fxVars>>

\* The outcomes of `entity.hp.0 += heal` on the combatant at position i
\* (ResNone when nothing is pending or the text is no number)
heal_outcomes(i) ==
    IF i < Len(entities) /\ parse_u32(At(entities, i).heal).some
    THEN u32_add(At(entities, i).hp.v, parse_u32(At(entities, i).heal).v)
    ELSE {ResNone}

\* Message::Heal(i), for the outcome o of `entity.hp.0 += heal`
Heal(i, o) ==
    /\ ~panicked
    /\ Log("Heal", i)
    /\ IF i >= Len(entities) THEN Abort
       ELSE LET heal == At(entities, i).heal
            IN  IF heal = Empty
                THEN UNCHANGED <<entities, turn, new_entity, saveVars, panicked, fxVars>>
                ELSE IF ~parse_u32(heal).some THEN Abort
                ELSE /\ o \in heal_outcomes(i)
                     /\ IF o.kind = "Panic" THEN Abort
                        ELSE /\ entities' = [entities EXCEPT ![i + 1].hp.v = o.v,
                                                             ![i + 1].heal = Empty]
                             /\ UNCHANGED <<turn, new_entity, saveVars, panicked, fxVars>>

\* Message::Reaction(i)
Reaction(i) ==
    /\ ~panicked
    /\ Log("Reaction", i)
    /\ IF i >= Len(entities) THEN Abort
       ELSE /\ entities' = [entities EXCEPT ![i + 1].reaction_free = ~@]
            /\ UNCHANGED <<turn, new_entity, saveVars, panicked, fxVars>>

\* Message::Concentrate(i)
Concentrate(i) ==
    /\ ~panicked
    /\ Log("Concentrate", i)
    /\ IF i >= Len(entities) THEN Abort
       ELSE /\ entities' = [entities EXCEPT ![i + 1].concentrating = ~@]
            /\ UNCHANGED <<turn, new_entity, saveVars, panicked, fxVars>>

\* u32 subtraction: the exact difference when it fits; otherwise the build
\* decides (overflow checks abort, without them the difference wraps)
u32_sub(a, b) ==
    IF a >= b THEN {ResSome(a - b)}
    ELSE {ResPanic, ResSome(a - b + U32Max + 1)}

\* The outcomes of `*left -= 1` and `*left += 1` on the combatant at position
\* i (ResNone when it has no legendary actions)
leg_minus_outcomes(i) ==
    IF i < Len(entities) /\ At(entities, i).legendary_actions.some
    THEN u32_sub(At(entities, i).legendary_actions.v.v.left, 1) ELSE {ResNone}

leg_plus_outcomes(i) ==
    IF i < Len(entities) /\ At(entities, i).legendary_actions.some
    THEN u32_add(At(entities, i).legendary_actions.v.v.left, 1) ELSE {ResNone}

\* Message::LegActionMinus(i), for the outcome o of `*left -= 1`
LegActionMinus(i, o) ==
    /\ ~panicked
    /\ Log("LegActionMinus", i)
    /\ IF i >= Len(entities) THEN Abort
       ELSE LET las == At(entities, i).legendary_actions
            IN  IF ~las.some
                THEN UNCHANGED <<entities, turn, new_entity, saveVars, panicked, fxVars>>
                ELSE /\ o \in leg_minus_outcomes(i)
                     /\ IF o.kind = "Panic" THEN Abort
                        ELSE /\ entities' = [entities EXCEPT
                                    ![i + 1].legendary_actions.v.v.left = o.v]
                             /\ UNCHANGED <<turn, new_entity, saveVars, panicked, fxVars>>

\* Message::LegActionPlus(i), for the outcome o of `*left += 1`
LegActionPlus(i, o) ==
    /\ ~panicked
    /\ Log("LegActionPlus", i)
    /\ IF i >= Len(entities) THEN Abort
       ELSE LET las == At(entities, i).legendary_actions
            IN  IF ~las.some
                THEN UNCHANGED <<entities, turn, new_entity, saveVars, panicked, fxVars>>
                ELSE /\ o \in leg_plus_outcomes(i)
                     /\ IF o.kind = "Panic" THEN Abort
                        ELSE /\ entities' = [entities EXCEPT
                                    ![i + 1].legendary_actions.v.v.left = o.v]
                             /\ UNCHANGED <<turn, new_entity, saveVars, panicked, fxVars>>

\* ------------------------------------------------------------ persistence

\* A file of a save directory: the JSON text of rows, followed by tail stale
\* bytes.  serde_json::from_reader accepts the file only when nothing follows
\* the JSON value.
File(rows, tail) == [rows |-> rows, tail |-> tail]

\* The length of the JSON text serde_json writes for a bool
json_bool_len(b) == IF b THEN Len("true") ELSE Len("false")

\* ... for Hidden<T>, a tuple struct: [value,hidden]
json_hidden_len(value_len, hidden) ==
    Len("[") + value_len + Len(",") + json_bool_len(hidden) + Len("]")

\* ... for an Enemy: {"name":..,"hp":..,"legendary_actions":..,"initiative":..}
json_enemy_len(enemy) ==
    Len("{\"name\":")
      + json_hidden_len(Len("\"") + Len(enemy.name.v) + Len("\""), enemy.name.hidden)
      + Len(",\"hp\":")
      + json_hidden_len(Len(Decimal(enemy.hp.v)), enemy.hp.hidden)
      + Len(",\"legendary_actions\":")
      + (IF enemy.legendary_actions.some
         THEN json_hidden_len(Len(Decimal(enemy.legendary_actions.v.v)),
                              enemy.legendary_actions.v.hidden)
         ELSE Len("null"))
      + Len(",\"initiative\":")
      + json_hidden_len(Len(Decimal(enemy.initiative.v)), enemy.initiative.hidden)
      + Len("}")

\* ... for a Vec<Enemy>: [enemy,enemy,..]
RECURSIVE json_enemies_len(_)
json_enemies_len(rows) ==
    IF rows = <<>> THEN Len("[]")
    ELSE IF Len(rows) = 1 THEN Len("[") + json_enemy_len(rows[1]) + Len("]")
    ELSE json_enemy_len(rows[1]) + Len(",") + json_enemies_len(Tail(rows))

\* OpenOptions::new().create(true).write(true).open(..) then to_writer: the
\* JSON text is written from the start of the file and the file is not
\* truncated, so what an older, longer file held beyond the new text stays
write_encounter(dir, name, rows) ==
    LET size == json_enemies_len(rows)
        old_size == IF name \in DOMAIN dir
                    THEN json_enemies_len(dir[name].rows) + dir[name].tail
                    ELSE 0
    IN  (name :> File(rows, IF old_size > size THEN old_size - size ELSE 0)) @@ dir

\* fs::remove_file, errors ignored
remove_file(dir, name) == [n \in (DOMAIN dir) \ {name} |-> dir[n]]

\* Mutant of enemies_of: the budget written is what is left, not the total
enemies_of_left(es) ==
    [k \in 1..Len(es) |->
        Enemy(es[k].name, es[k].hp,
              IF es[k].legendary_actions.some
              THEN Some(Hidden(es[k].legendary_actions.v.v.left,
                               es[k].legendary_actions.v.hidden))
              ELSE None,
              es[k].initiative)]

\* The Enemy rows SaveEncounter writes: name, hp, initiative and the
\* legendary total of every combatant, each with its hidden flag
enemies_of(es) ==
    [k \in 1..Len(es) |->
        Enemy(es[k].name, es[k].hp,
              IF es[k].legendary_actions.some
              THEN Some(Hidden(es[k].legendary_actions.v.v.tot,
                               es[k].legendary_actions.v.hidden))
              ELSE None,
              es[k].initiative)]

\* Message::SaveEncounter
SaveEncounter ==
    /\ ~panicked
    /\ Log("SaveEncounter", -1)
    /\ IF save_mode.kind = "SaveEncounter" /\ save_mode.text # ""
       THEN /\ encounter_dir' = write_encounter(encounter_dir, save_mode.text,
                                                enemies_of(entities))
            /\ save_mode' = SM_None
            /\ UNCHANGED <<entities, turn, new_entity, party_dir, panicked, fxVars>>
       ELSE /\ save_mode' = SM_SaveEncounter("")
            /\ UNCHANGED <<entities, turn, new_entity, encounter_dir, party_dir,
                           panicked, fxVars>>

\* Message::EncounterName(name)
EncounterName(name) ==
    /\ ~panicked
    /\ LogNamed("EncounterName", name)
    /\ save_mode' = IF save_mode.kind \in {"SaveEncounter", "DeleteEncounter"}
                    THEN [save_mode EXCEPT !.text = name]
                    ELSE save_mode
    /\ UNCHANGED <<entities, turn, new_entity, encounter_dir, party_dir,
                   panicked, fxVars>>

\* Message::DeleteEncounter(name)
DeleteEncounter(name) ==
    /\ ~panicked
    /\ LogNamed("DeleteEncounter", name)
    /\ IF save_mode.kind = "DeleteEncounter" /\ save_mode.name = name
       THEN /\ encounter_dir' = remove_file(encounter_dir, name)
            /\ save_mode' = SM_None
            /\ UNCHANGED <<entities, turn, new_entity, party_dir, panicked, fxVars>>
       ELSE /\ save_mode' = SM_DeleteEncounter(name, "")
            /\ UNCHANGED <<entities, turn, new_entity, encounter_dir, party_dir,
                           panicked, fxVars>>

\* OpenOptions::open(..).unwrap() then serde_json::from_reader(..).unwrap():
\* the rows of the file, or an abort when the file is missing or is not one
\* JSON value
read_rows(dir, name) ==
    IF name \notin DOMAIN dir THEN ResPanic
    ELSE IF dir[name].tail # 0 THEN ResPanic
    ELSE ResSome(dir[name].rows)

\* The Entity the confirming LoadEncounter builds from an Enemy row
entity_of_enemy(enemy) ==
    [Entity_new(0, enemy.name, enemy.hp, enemy.initiative)
        EXCEPT !.legendary_actions =
            IF enemy.legendary_actions.some
            THEN Some(Hidden([tot  |-> enemy.legendary_actions.v.v,
                              left |-> enemy.legendary_actions.v.v],
                             enemy.legendary_actions.v.hidden))
            ELSE None]

\* Message::LoadEncounter(name)
LoadEncounter(name) ==
    /\ ~panicked
    /\ LogNamed("LoadEncounter", name)
    /\ IF save_mode.kind = "LoadEncounter" /\ save_mode.name = name
       THEN LET news == [k \in 1..Len(save_mode.rows) |-> entity_of_enemy(save_mode.rows[k])]
                r == insert_all(entities, turn, news)
            IN  /\ entities' = r.entities
                /\ turn' = r.turn
                /\ save_mode' = SM_None
                /\ UNCHANGED <<new_entity, encounter_dir, party_dir, panicked, fxVars>>
       ELSE LET rows == read_rows(encounter_dir, name)
            IN  IF rows.kind = "Panic" THEN Abort
                ELSE /\ save_mode' = SM_LoadEncounter(name, rows.v)
                     /\ UNCHANGED <<entities, turn, new_entity, encounter_dir,
                                    party_dir, panicked, fxVars>>

\* HideablePart
HideableParts == {"Name", "Hp", "LegActs", "Initiative"}

\* Message::EncounterHide(idx, hide, part)
EncounterHide(idx, hide, part) ==
    /\ ~panicked
    /\ Log("EncounterHide", idx)
    /\ IF save_mode.kind # "LoadEncounter"
       THEN UNCHANGED <<entities, turn, new_entity, saveVars, panicked, fxVars>>
       ELSE IF idx >= Len(save_mode.rows) THEN Abort
       ELSE /\ save_mode' =
                 CASE part = "Name" ->
                        [save_mode EXCEPT !.rows[idx + 1].name.hidden = hide]
                   [] part = "Hp" ->
                        [save_mode EXCEPT !.rows[idx + 1].hp.hidden = hide]
                   [] part = "LegActs" ->
                        IF save_mode.rows[idx + 1].legendary_actions.some
                        THEN [save_mode EXCEPT
                                !.rows[idx + 1].legendary_actions.v.hidden = hide]
                        ELSE save_mode
                   [] part = "Initiative" ->
                        [save_mode EXCEPT !.rows[idx + 1].initiative.hidden = hide]
            /\ UNCHANGED <<entities, turn, new_entity, encounter_dir, party_dir,
                           panicked, fxVars>>

\* The length of the JSON text serde_json writes for a Pc: {"name":..,"hp":..}
json_pc_len(pc) ==
    Len("{\"name\":") + Len("\"") + Len(pc.name) + Len("\"")
      + Len(",\"hp\":") + Len(Decimal(pc.hp)) + Len("}")

\* ... for a Vec<Pc>
RECURSIVE json_pcs_len(_)
json_pcs_len(pcs) ==
    IF pcs = <<>> THEN Len("[]")
    ELSE IF Len(pcs) = 1 THEN Len("[") + json_pc_len(pcs[1]) + Len("]")
    ELSE json_pc_len(pcs[1]) + Len(",") + json_pcs_len(Tail(pcs))

\* The party file after SaveParty: opened like the encounter file, without
\* truncation
write_party(dir, name, pcs) ==
    LET size == json_pcs_len(pcs)
        old_size == IF name \in DOMAIN dir
                    THEN json_pcs_len(dir[name].rows) + dir[name].tail
                    ELSE 0
    IN  (name :> File(pcs, IF old_size > size THEN old_size - size ELSE 0)) @@ dir

\* The Pc rows SaveParty writes: name and hp of every combatant
pcs_of(es) == [k \in 1..Len(es) |-> Pc(es[k].name.v, es[k].hp.v)]

\* Message::SaveParty
SaveParty ==
    /\ ~panicked
    /\ Log("SaveParty", -1)
    /\ IF save_mode.kind = "SaveParty" /\ save_mode.text # ""
       THEN /\ party_dir' = write_party(party_dir, save_mode.text, pcs_of(entities))
            /\ save_mode' = SM_None
            /\ UNCHANGED <<entities, turn, new_entity, encounter_dir, panicked, fxVars>>
       ELSE /\ save_mode' = SM_SaveParty("")
            /\ UNCHANGED <<entities, turn, new_entity, encounter_dir, party_dir,
                           panicked, fxVars>>

\* Message::PartyName(name)
PartyName(name) ==
    /\ ~panicked
    /\ LogNamed("PartyName", name)
    /\ save_mode' = IF save_mode.kind \in {"SaveParty", "DeleteParty"}
                    THEN [save_mode EXCEPT !.text = name]
                    ELSE save_mode
    /\ UNCHANGED <<entities, turn, new_entity, encounter_dir, party_dir,
                   panicked, fxVars>>

\* Mutant of DeleteParty: the prompt stays open after the file is removed
DeleteParty_open(name) ==
    /\ ~panicked
    /\ LogNamed("DeleteParty", name)
    /\ IF save_mode.kind = "DeleteParty" /\ save_mode.name = name
       THEN /\ party_dir' = remove_file(party_dir, name)
            /\ UNCHANGED <<entities, turn, new_entity, save_mode, encounter_dir,
                           panicked, fxVars>>
       ELSE /\ save_mode' = SM_DeleteParty(name, "")
            /\ UNCHANGED <<entities, turn, new_entity, encounter_dir, party_dir,
                           panicked, fxVars>>

\* Message::DeleteParty(name)
DeleteParty(name) ==
    /\ ~panicked
    /\ LogNamed("DeleteParty", name)
    /\ IF save_mode.kind = "DeleteParty" /\ save_mode.name = name
       THEN /\ party_dir' = remove_file(party_dir, name)
            /\ save_mode' = SM_None
            /\ UNCHANGED <<entities, turn, new_entity, encounter_dir, panicked, fxVars>>
       ELSE /\ save_mode' = SM_DeleteParty(name, "")
            /\ UNCHANGED <<entities, turn, new_entity, encounter_dir, party_dir,
                           panicked, fxVars>>

\* A row of SaveMode::LoadParty: the Pc and the text of its initiative input
PartyRow(pc, text) == [pc |-> pc, text |-> text]

\* rows.drain(0..).map(..parse().unwrap()..).for_each(insert_entity) is lazy:
\* a row is parsed when its turn to be inserted comes, so the rows before
\* the first one whose text is not a u32 are inserted before the abort.
\* entered(rows) is the number of those rows.
entered(rows) ==
    Min({Len(rows)} \cup {k - 1 : k \in {j \in 1..Len(rows) :
                                           ~parse_u32(rows[j].text).some}})

\* Message::LoadParty(name)
LoadParty(name) ==
    /\ ~panicked
    /\ LogNamed("LoadParty", name)
    /\ IF save_mode.kind = "LoadParty" /\ save_mode.name = name
       THEN LET rows == save_mode.rows
                news == [k \in 1..entered(rows) |->
                           Entity_new(0, Hidden(rows[k].pc.name, FALSE),
                                      Hidden(rows[k].pc.hp, FALSE),
                                      Hidden(parse_u32(rows[k].text).v, FALSE))]
                r == insert_all(entities, turn, news)
            IN  /\ entities' = r.entities
                /\ turn' = r.turn
                /\ IF entered(rows) < Len(rows)
                   THEN /\ panicked' = TRUE
                        /\ save_mode' = SM_LoadParty(name, <<>>)
                   ELSE /\ panicked' = FALSE
                        /\ save_mode' = SM_None
                /\ UNCHANGED <<new_entity, encounter_dir, party_dir, fxVars>>
       ELSE LET pcs == read_rows(party_dir, name)
            IN  IF pcs.kind = "Panic" THEN Abort
                ELSE /\ save_mode' = SM_LoadParty(name,
                            [k \in 1..Len(pcs.v) |-> PartyRow(pcs.v[k], Empty)])
                     /\ UNCHANGED <<entities, turn, new_entity, encounter_dir,
                                    party_dir, panicked, fxVars>>

\* Message::PcInitiative(idx, init)
PcInitiative(idx, init) ==
    /\ ~panicked
    /\ Log("PcInitiative", idx)
    /\ IF save_mode.kind # "LoadParty"
       THEN UNCHANGED <<entities, turn, new_entity, saveVars, panicked, fxVars>>
       ELSE IF init = Empty \/ parse_u32(init).some
       THEN IF idx >= Len(save_mode.rows) THEN Abort
            ELSE /\ save_mode' = [save_mode EXCEPT !.rows[idx + 1].text = init]
                 /\ UNCHANGED <<entities, turn, new_entity, encounter_dir,
                                party_dir, panicked, fxVars>>
       ELSE UNCHANGED <<entities, turn, new_entity, saveVars, panicked, fxVars>>

\* SaveMode::view, LoadParty: the submit button and the initiative inputs
\* carry LoadParty only when every initiative has been entered
all_entered == \A k \in 1..Len(save_mode.rows) : save_mode.rows[k].text # Empty

\* The names view lists in the load pick lists: the file stems of the directory
listed(dir) == DOMAIN dir

\* LoadEncounter(name) is emitted by the load pick list and by the Confirm
\* button of the preview
LoadEncounterOffered(name) ==
    \/ name \in listed(encounter_dir)
    \/ save_mode.kind = "LoadEncounter" /\ save_mode.name = name

\* LoadParty(name) is emitted by the load pick list and, once every
\* initiative has been entered, by the prompt
LoadPartyOffered(name) ==
    \/ name \in listed(party_dir)
    \/ save_mode.kind = "LoadParty" /\ save_mode.name = name /\ all_entered

\* --------------------------------------------------------- specifications

\* The save directories as an earlier session left them
EncounterDisk ==
    "goblins" :> File(<<Enemy(Hidden("boss", FALSE), Hidden(30, TRUE),
                              Some(Hidden(2, FALSE)), Hidden(10, FALSE)),
                        Enemy(Hidden("gob", FALSE), Hidden(7, FALSE),
                              None, Hidden(9, FALSE))>>, 0)

PartyDisk == "heroes" :> File(<<Pc("pc", 5)>>, 0)

NoFiles == [name \in {} |-> File(<<>>, 0)]

\* No step before the last one
NoStep == [msg |-> "Init", entities |-> <<>>, turn |-> 0]

\* The history before the first Message; HistoryOff keeps no history
HistoryOn ==
    [msg |-> "Init", idx |-> -1, name |-> "", entities |-> <<>>, turn |-> 0,
     form |-> NewEntity_default, drawn |-> 0,
     sent |-> 0, mode |-> SM_None, saved |-> None, track |-> FALSE,
     run |-> <<>>, watch |-> FALSE, hit |-> None, pairs |-> FALSE,
     before |-> NoStep]
HistoryOff ==
    [msg |-> "Off", idx |-> -1, name |-> "", entities |-> <<>>, turn |-> 0,
     form |-> NewEntity_default, drawn |-> 0,
     sent |-> 0, mode |-> SM_None, saved |-> None, track |-> FALSE,
     run |-> <<>>, watch |-> FALSE, hit |-> None, pairs |-> FALSE,
     before |-> NoStep]
\* HistoryRuns also tracks the runs of consecutive NextTurn Messages
HistoryRuns ==
    [msg |-> "Init", idx |-> -1, name |-> "", entities |-> <<>>, turn |-> 0,
     form |-> NewEntity_default, drawn |-> 0,
     sent |-> 0, mode |-> SM_None, saved |-> None, track |-> TRUE,
     run |-> <<>>, watch |-> FALSE, hit |-> None, pairs |-> FALSE,
     before |-> NoStep]
\* HistoryHits also keeps the combatant whose damage issued the latest
\* highlight Command
HistoryHits ==
    [msg |-> "Init", idx |-> -1, name |-> "", entities |-> <<>>, turn |-> 0,
     form |-> NewEntity_default, drawn |-> 0,
     sent |-> 0, mode |-> SM_None, saved |-> None, track |-> FALSE,
     run |-> <<>>, watch |-> TRUE, hit |-> None, pairs |-> FALSE,
     before |-> NoStep]
\* HistoryPairs also keeps the step before the last one
HistoryPairs ==
    [msg |-> "Init", idx |-> -1, name |-> "", entities |-> <<>>, turn |-> 0,
     form |-> NewEntity_default, drawn |-> 0,
     sent |-> 0, mode |-> SM_None, saved |-> None, track |-> FALSE,
     run |-> <<>>, watch |-> FALSE, hit |-> None, pairs |-> TRUE,
     before |-> NoStep]

\* InitiativeManager::new, with the directories and the history given
InitWith(encounters, parties, history) ==
    /\ entities = <<>>
    /\ turn = 0
    /\ new_entity = NewEntity_default
    /\ save_mode = SM_None
    /\ encounter_dir = encounters
    /\ party_dir = parties
    /\ panicked = FALSE
    /\ highlight_state = None
    /\ commands = <<>>
    /\ now = 0
    /\ dm_view = TRUE
    /\ last = history

\* The confirming load step fits the list bound
LoadFits(kind, name, cap) ==
    (save_mode.kind = kind /\ save_mode.name = name)
        => Len(entities) + Len(save_mode.rows) <= cap

\* Inputs
Names == {"orc"}
InitTexts == {<<"9">>}
Rolls == {8, 9, 10}
PcInitTexts == {<<"9">>}
SaveNames == {"goblins", "heroes", "new"}

\* The new-combatant form (name only: the initiative is rolled)
AddEntity ==
    \/ \E name \in Names : NewName(name)
    \/ \E roll \in Rolls :
         \E hp \in submit_hp(new_entity.hp.v) :
           \E init \in submit_init(new_entity.init.v, roll) :
             /\ new_ready
             /\ Len(entities) < MaxEntities
             /\ NewEntitySubmit(roll, hp, init)

\* The widgets of the rows of the initiative table that change the list
EditList ==
    \/ \E i \in Rows : DeleteEntity(row_idx(i))
    \/ \E i \in Rows : move_up(entities, row_idx(i)) /\ MoveUp(row_idx(i))
    \/ \E i \in Rows : move_down(entities, row_idx(i)) /\ MoveDown(row_idx(i))

\* The encounter pick list and the preview it opens
LoadEnc(cap) ==
    \E name \in SaveNames :
        /\ LoadEncounterOffered(name)
        /\ LoadFits("LoadEncounter", name, cap)
        /\ LoadEncounter(name)

\* The party pick list and the prompt it opens
LoadPty ==
    \/ \E name \in SaveNames :
         /\ LoadPartyOffered(name)
         /\ LoadFits("LoadParty", name, MaxEntities)
         /\ LoadParty(name)
    \/ \E init \in PcInitTexts :
         /\ save_mode.kind = "LoadParty"
         /\ \E idx \in 0..(Len(save_mode.rows) - 1) : PcInitiative(idx, init)

\* Spec: the list engine.  Combatants are added through the form, deleted,
\* moved, and the turn is stepped; every step records the state before it.
Init == InitWith(NoFiles, NoFiles, HistoryOn)

Next ==
    \/ AddEntity
    \/ EditList
    \/ NextTurn
    \/ PrevTurn

Spec == Init /\ [][Next]_vars

\* SpecAll: every operation that changes the list or the turn, with saved
\* encounters and parties on disk; no history.
InitAll == InitWith(EncounterDisk, PartyDisk, HistoryOff)

NextAll ==
    \/ AddEntity
    \/ \E init \in InitTexts : NewInit(init)
    \/ EditList
    \/ NextTurn
    \/ PrevTurn
    \/ LoadEnc(MaxEntities)
    \/ LoadPty

SpecAll == InitAll /\ [][NextAll]_vars

\* Mutant of minus_offered: the minus button is wired whatever is left
minus_offered_always(idx) == At(entities, idx).legendary_actions.some

\* The legendary-action buttons: view wires the minus button only while
\* left != 0 and the plus button only while left != tot
minus_offered(idx) ==
    /\ At(entities, idx).legendary_actions.some
    /\ At(entities, idx).legendary_actions.v.v.left # 0

plus_offered(idx) ==
    /\ At(entities, idx).legendary_actions.some
    /\ At(entities, idx).legendary_actions.v.v.left # At(entities, idx).legendary_actions.v.v.tot

\* The widgets of the rows that change a combatant in place
EditRow ==
    \/ \E i \in Rows : Reaction(row_idx(i))
    \/ \E i \in Rows : Concentrate(row_idx(i))
    \/ \E i \in Rows : /\ minus_offered(row_idx(i))
                        /\ \E o \in leg_minus_outcomes(row_idx(i)) :
                              LegActionMinus(row_idx(i), o)
    \/ \E i \in Rows : /\ plus_offered(row_idx(i))
                        /\ \E o \in leg_plus_outcomes(row_idx(i)) :
                              LegActionPlus(row_idx(i), o)

\* SpecTurn: the turn controls.  Combatants come from the saved encounter,
\* are changed in place through their rows and deleted, and the turn is
\* stepped; every step records the state before it.
InitTurn == InitWith(EncounterDisk, NoFiles, HistoryOn)

NextTurnSpec ==
    \/ LoadEnc(MaxRows)
    \/ EditRow
    \/ \E i \in Rows : DeleteEntity(row_idx(i))
    \/ NextTurn
    \/ PrevTurn

SpecTurn == InitTurn /\ [][NextTurnSpec]_vars

\* SpecCycle: SpecTurn with the runs of consecutive NextTurn Messages tracked
InitCycle == InitWith(EncounterDisk, NoFiles, HistoryRuns)

SpecCycle == InitCycle /\ [][NextTurnSpec]_vars

\* A saved encounter whose hit points are the largest u32 and a small number
HpDisk ==
    "goblins" :> File(<<Enemy(Hidden("boss", FALSE), Hidden(U32Max, FALSE),
                              Some(Hidden(2, FALSE)), Hidden(10, FALSE)),
                        Enemy(Hidden("gob", FALSE), Hidden(5, FALSE),
                              None, Hidden(9, FALSE))>>, 0)

\* What is typed into the damage inputs; the last is refused (no u32)
DamageTexts == {Empty, Decimal(U32Max - 5), Decimal(U32Max), Decimal(U32Max + 1)}

\* What is typed into the heal inputs; the last is refused (no u32)
HealTexts == {Empty, Decimal((U32Max + 1) \div 2), Decimal(U32Max + 1)}

\* The damage inputs of the rows.  A Damage that issues a Command waits
\* while MaxCommands are in flight.
DamageRow ==
    \/ \E i \in Rows : \E text \in DamageTexts : EditDamage(row_idx(i), text)
    \/ \E i \in Rows :
         /\ At(entities, row_idx(i)).concentrating => Len(commands) < MaxCommands
         /\ Damage(row_idx(i))

\* The heal inputs of the rows
HealRow ==
    \/ \E i \in Rows : \E text \in HealTexts : EditHealing(row_idx(i), text)
    \/ \E i \in Rows : \E o \in heal_outcomes(row_idx(i)) : Heal(row_idx(i), o)

\* SpecDamage: damage.  Combatants come from the saved encounter, concentrate
\* or not, and take the damage typed into their rows.
InitHp == InitWith(HpDisk, NoFiles, HistoryOn)

NextDamage ==
    \/ LoadEnc(MaxRows)
    \/ DamageRow
    \/ \E i \in Rows : Concentrate(row_idx(i))

SpecDamage == InitHp /\ [][NextDamage]_vars

\* SpecHeal: healing.  Combatants come from the saved encounter and receive
\* the healing typed into their rows.
NextHeal ==
    \/ LoadEnc(MaxRows)
    \/ HealRow
    \/ NextTurn

SpecHeal == InitHp /\ [][NextHeal]_vars

\* What is typed into the legendary-actions input of the form
LasTexts == {<<"1">>}

\* The legendary-action buttons of the rows
LegButtons ==
    \/ \E i \in Rows : /\ minus_offered(row_idx(i))
                        /\ \E o \in leg_minus_outcomes(row_idx(i)) :
                              LegActionMinus(row_idx(i), o)
    \/ \E i \in Rows : /\ plus_offered(row_idx(i))
                        /\ \E o \in leg_plus_outcomes(row_idx(i)) :
                              LegActionPlus(row_idx(i), o)

\* SpecLeg: legendary actions.  Combatants with and without a budget are
\* added through the form and loaded from the saved encounter, spend and
\* regain actions through the buttons of their rows, and the turn is stepped;
\* no history.
InitLeg == InitWith(EncounterDisk, NoFiles, HistoryOff)

NextLeg ==
    \/ AddEntity
    \/ \E las \in LasTexts : NewLas(las)
    \/ LoadEnc(MaxEntities)
    \/ LegButtons
    \/ NextTurn

SpecLeg == InitLeg /\ [][NextLeg]_vars

\* SpecLegRaw: the legendary-action handlers by themselves.  LegActionMinus
\* and LegActionPlus are handled for every row in every state, whatever the
\* buttons of the current rendering offer.
NextLegRaw ==
    \/ LoadEnc(MaxRows)
    \/ \E i \in Rows : \E o \in leg_minus_outcomes(row_idx(i)) :
         LegActionMinus(row_idx(i), o)
    \/ \E i \in Rows : \E o \in leg_plus_outcomes(row_idx(i)) :
         LegActionPlus(row_idx(i), o)

SpecLegRaw == InitTurn /\ [][NextLegRaw]_vars

\* What is typed into the name input of the save and delete prompts
EncounterNames == {"new"}

\* The prompt holds a name that has a file already
NameTaken ==
    /\ save_mode.kind = "SaveEncounter"
    /\ save_mode.text \in listed(encounter_dir)

\* The Save Encounter button, and the prompt it opens: the name input, and
\* its submit once a name has been typed.  Only names without a file are
\* submitted.
SaveEnc ==
    \/ ~NameTaken /\ SaveEncounter
    \/ \E name \in EncounterNames :
         /\ save_mode.kind \in {"SaveEncounter", "DeleteEncounter"}
         /\ EncounterName(name)

\* DeleteEncounter(name) is emitted by the delete pick list and, once the
\* name has been typed again, by the prompt
DeleteEncounterOffered(name) ==
    \/ name \in listed(encounter_dir)
    \/ save_mode.kind = "DeleteEncounter" /\ save_mode.name = name
         /\ save_mode.text = name

DeleteEnc ==
    \E name \in EncounterNames :
        /\ DeleteEncounterOffered(name)
        /\ DeleteEncounter(name)

\* SpecSave: saved encounters.  Combatants come from a saved encounter
\* picked while the list is empty, spend legendary actions and are deleted;
\* the list is saved under a new name, and saved encounters are removed.
NextSave ==
    \/ entities = <<>> /\ LoadEnc(MaxRows)
    \/ \E i \in Rows : /\ minus_offered(row_idx(i))
                        /\ \E o \in leg_minus_outcomes(row_idx(i)) :
                              LegActionMinus(row_idx(i), o)
    \/ \E i \in Rows : DeleteEntity(row_idx(i))
    \/ SaveEnc
    \/ DeleteEnc

SpecSave == InitTurn /\ [][NextSave]_vars

\* A saved party of two player characters
PartyOfTwo == "heroes" :> File(<<Pc("pc", 5), Pc("ally", 6)>>, 0)

\* What is typed into an initiative input of the party prompt
PartyInitTexts == {Empty, <<"9">>}

\* The party pick list, the prompt it opens, and the initiative inputs of
\* the prompt
LoadPtyRows ==
    \/ \E name \in SaveNames :
         /\ LoadPartyOffered(name)
         /\ LoadFits("LoadParty", name, MaxEntities)
         /\ LoadParty(name)
    \/ \E init \in PartyInitTexts :
         /\ save_mode.kind = "LoadParty"
         /\ \E idx \in 0..(Len(save_mode.rows) - 1) : PcInitiative(idx, init)

\* SpecParty: loads.  A saved party and a saved encounter are picked,
\* initiatives are typed, loads are confirmed or given up for another pick,
\* and combatants are deleted; every step records the state before it.
InitParty == InitWith(EncounterDisk, PartyOfTwo, HistoryOn)

NextParty ==
    \/ LoadPtyRows
    \/ LoadEnc(MaxEntities)
    \/ \E i \in Rows : DeleteEntity(row_idx(i))

SpecParty == InitParty /\ [][NextParty]_vars

\* What is typed into the name input when an encounter is saved again
SavedNames == {"goblins", "new"}

\* The Save Encounter button and its prompt, with the name of a saved
\* encounter typed
SaveOver ==
    \/ SaveEncounter
    \/ \E name \in SavedNames :
         /\ save_mode.kind \in {"SaveEncounter", "DeleteEncounter"}
         /\ EncounterName(name)

\* SpecOver: saving again.  A saved encounter is loaded into the empty
\* list, combatants are deleted, and the list is saved under the name of
\* the saved encounter.
NextOver ==
    \/ entities = <<>> /\ LoadEnc(MaxRows)
    \/ \E i \in Rows : DeleteEntity(row_idx(i))
    \/ SaveOver

SpecOver == InitTurn /\ [][NextOver]_vars

\* What is typed into the damage and heal inputs when both are in use
FxTexts == {Empty, Decimal(U32Max)}

\* SpecFx: the highlight Commands.  Combatants come from the saved
\* encounter, concentrate or not, and take the damage typed into their rows;
\* the healing typed into their rows is applied once they are at 0.
NextFx ==
    \/ LoadEnc(MaxRows)
    \/ \E i \in Rows : \E text \in FxTexts : EditDamage(row_idx(i), text)
    \/ \E i \in Rows :
         /\ At(entities, row_idx(i)).concentrating => Len(commands) < MaxCommands
         /\ Damage(row_idx(i))
    \/ \E i \in Rows : \E text \in FxTexts : EditHealing(row_idx(i), text)
    \/ \E i \in Rows : \E o \in heal_outcomes(row_idx(i)) :
         /\ At(entities, row_idx(i)).hp.v = 0
         /\ Heal(row_idx(i), o)
    \/ \E i \in Rows : Concentrate(row_idx(i))

SpecFx == InitHp /\ [][NextFx]_vars

\* What is typed into the inputs of the form and of a row; the last text of
\* each set is refused
FormInitTexts == {<<"-">>, <<"9">>, <<"x">>, Decimal(I32Max + 1)}
FormHpTexts == {<<"2", "d">>, <<"1", "d", "2">>, <<"d">>}
FormLasTexts == {<<"1">>, <<"x">>}
RowTexts == {<<"1">>, Decimal(U32Max + 1)}

\* The new-combatant form with all its inputs; it is submitted while the
\* list is empty
FillForm ==
    \/ \E name \in Names : NewName(name)
    \/ \E init \in FormInitTexts : NewInit(init)
    \/ \E hp \in FormHpTexts : NewHp(hp)
    \/ \E las \in FormLasTexts : NewLas(las)
    \/ \E roll \in Rolls :
         \E hp \in submit_hp(new_entity.hp.v) :
           \E init \in submit_init(new_entity.init.v, roll) :
             /\ new_ready
             /\ entities = <<>>
             /\ NewEntitySubmit(roll, hp, init)

\* The damage and heal inputs of the rows; healing is applied at 0 hit points
EditHp ==
    \/ \E i \in Rows : \E text \in RowTexts : EditDamage(row_idx(i), text)
    \/ \E i \in Rows : Damage(row_idx(i))
    \/ \E i \in Rows : \E text \in RowTexts : EditHealing(row_idx(i), text)
    \/ \E i \in Rows : \E o \in heal_outcomes(row_idx(i)) :
         /\ At(entities, row_idx(i)).hp.v = 0
         /\ Heal(row_idx(i), o)

\* SpecForm: the text inputs.  Accepted and refused texts are typed into
\* the inputs of the form and of the row, the form is submitted, and the
\* combatant is damaged, healed and deleted.
NextForm ==
    \/ FillForm
    \/ EditHp
    \/ \E i \in Rows : DeleteEntity(row_idx(i))

SpecForm == Init /\ [][NextForm]_vars

\* The text NdM+P
DiceText(n, m, p) == Decimal(n) \o <<"d">> \o Decimal(m) \o <<"+">> \o Decimal(p)

\* SpecRoll: the resolution of a dice expression.  The form holds a name
\* and a complete expression NdM+P, and is submitted.
InitRoll ==
    /\ \E n \in 0..MaxDice : \E m \in 0..MaxSides : \E p \in 0..MaxBonus :
         new_entity = [NewEntity_default EXCEPT !.name.v = "orc",
                                                !.hp.v = DiceText(n, m, p)]
    /\ entities = <<>>
    /\ turn = 0
    /\ save_mode = SM_None
    /\ encounter_dir = NoFiles
    /\ party_dir = NoFiles
    /\ panicked = FALSE
    /\ highlight_state = None
    /\ commands = <<>>
    /\ now = 0
    /\ dm_view = TRUE
    /\ last = HistoryOn

NextRoll ==
    \E roll \in Rolls :
      \E hp \in submit_hp(new_entity.hp.v) :
        \E init \in submit_init(new_entity.init.v, roll) :
          NewEntitySubmit(roll, hp, init)

SpecRoll == InitRoll /\ [][NextRoll]_vars

\* What is typed into the hp input while the window is rendered
RenderHpTexts == {Empty, <<"2", "d">>, <<"1", "d", "2">>, <<"7">>}

\* SpecRender: the form and the window.  A name and hp texts are typed, the
\* window is rendered, and the form is submitted while the list has room.
NextRender ==
    \/ \E name \in Names : NewName(name)
    \/ \E hp \in RenderHpTexts : NewHp(hp)
    \/ view
    \/ \E roll \in Rolls :
         \E hp \in submit_hp(new_entity.hp.v) :
           \E init \in submit_init(new_entity.init.v, roll) :
             /\ new_ready
             /\ Len(entities) < MaxRows
             /\ NewEntitySubmit(roll, hp, init)

SpecRender == Init /\ [][NextRender]_vars

\* The checkboxes of the preview of a saved encounter
PreviewBoxes ==
    \E idx \in 0..(MaxRows - 1) : \E hide \in BOOLEAN : \E part \in HideableParts :
        /\ save_mode.kind = "LoadEncounter"
        /\ idx < Len(save_mode.rows)
        /\ EncounterHide(idx, hide, part)

\* SpecHide: hidden stats.  A saved encounter is picked while the list is
\* empty, stats are hidden or shown in its preview, it is loaded, legendary
\* actions are spent, and the DM view is switched on and off.
NextHide ==
    \/ entities = <<>> /\ LoadEnc(MaxRows)
    \/ PreviewBoxes
    \/ \E i \in Rows : /\ minus_offered(row_idx(i))
                        /\ \E o \in leg_minus_outcomes(row_idx(i)) :
                              LegActionMinus(row_idx(i), o)
    \/ ToggleVisibility

InitHide == InitWith(EncounterDisk, NoFiles, HistoryOff)

SpecHide == InitHide /\ [][NextHide]_vars

\* What is typed into the initiative input: nothing, a sign, signed
\* modifiers up to the largest i32, and an unsigned number
ModifierTexts ==
    {Empty, <<"+">>, <<"-">>, <<"+", "2">>, <<"-", "9">>, <<"7">>,
     <<"+">> \o Decimal(I32Max), <<"-">> \o Decimal(I32Max + 1)}

\* The d20 rolls drawn at submission: the ends of the die and one between
ModifierRolls == {1, 9, D20}

\* SpecInitiative: the initiative of a submitted combatant.  The name and
\* the initiative are typed, the form is submitted into the empty list and
\* the combatant is deleted again.
NextInitiative ==
    \/ \E name \in Names : NewName(name)
    \/ \E init \in ModifierTexts : NewInit(init)
    \/ \E roll \in ModifierRolls :
         \E hp \in submit_hp(new_entity.hp.v) :
           \E init \in submit_init(new_entity.init.v, roll) :
             /\ new_ready
             /\ entities = <<>>
             /\ NewEntitySubmit(roll, hp, init)
    \/ \E i \in Rows : DeleteEntity(row_idx(i))

SpecInitiative == Init /\ [][NextInitiative]_vars

\* A saved encounter of two combatants with equal initiatives
GlowDisk ==
    "goblins" :> File(<<Enemy(Hidden("boss", FALSE), Hidden(U32Max, FALSE),
                              None, Hidden(9, FALSE)),
                        Enemy(Hidden("gob", FALSE), Hidden(5, FALSE),
                              None, Hidden(9, FALSE))>>, 0)

\* The latest time the clock reaches, and the steps it advances by
MaxNow == MaxTicks * (HighlightMs \div 2)

TimeSteps == {HighlightMs \div 2, HighlightMs}

\* Time passes, up to MaxNow
Clock ==
    \E d \in TimeSteps : now + d <= MaxNow /\ Tick(d)

\* The runtime delivers one of the Commands in flight
Deliver ==
    \E k \in 1..Len(commands) : HighlightConcentration(k)

\* A row is set to concentrate, takes the damage typed into it, and the
\* highlight Command of a concentrating combatant is issued while fewer than
\* chains others are in flight and its highlight can end before MaxNow
Hit(chains) ==
    \/ \E i \in Rows :
         /\ ~At(entities, row_idx(i)).concentrating
         /\ Concentrate(row_idx(i))
    \/ \E i \in Rows :
         /\ At(entities, row_idx(i)).damage = Empty
         /\ EditDamage(row_idx(i), <<"1">>)
    \/ \E i \in Rows :
         /\ At(entities, row_idx(i)).concentrating
         /\ Len(commands) < chains
         /\ now + HighlightMs <= MaxNow
         /\ Damage(row_idx(i))

InitGlow == InitWith(GlowDisk, NoFiles, HistoryHits)

\* SpecGlow: the highlight in the rendered window.  Combatants come from
\* the saved encounter, concentrate, take damage and are deleted, while
\* the highlight Messages are delivered, time passes and the window is
\* rendered.
NextGlow ==
    \/ entities = <<>> /\ LoadEnc(MaxRows)
    \/ Hit(MaxCommands)
    \/ Deliver
    \/ Clock
    \/ \E i \in Rows : DeleteEntity(row_idx(i))
    \/ view

SpecGlow == InitGlow /\ [][NextGlow]_vars

\* SpecFade: highlights that run out.  Up to MaxChains highlights overlap;
\* every Command in flight is delivered in the end and time keeps advancing
\* (up to MaxNow, after which no highlight starts).
NextFade ==
    \/ entities = <<>> /\ LoadEnc(MaxRows)
    \/ Hit(MaxChains)
    \/ Deliver
    \/ Clock

SpecFade ==
    /\ InitGlow
    /\ [][NextFade]_vars
    /\ WF_vars(Deliver)
    /\ WF_vars(Clock)

\* SpecDrift: the highlight while the list changes.  Combatants come from
\* the saved encounter, one concentrates and takes damage; the highlight
\* Messages are delivered and time passes, and while the highlight is set
\* a combatant is added through the form, combatants are deleted and moved
\* and the turn is stepped.  One highlight is followed.
NextDrift ==
    \/ entities = <<>> /\ ~last.hit.some /\ LoadEnc(MaxRows)
    \/ ~last.hit.some /\ Hit(MaxCommands)
    \/ Deliver
    \/ last.hit.some /\ Clock
    \/ highlight_state.some /\ \E name \in Names : NewName(name)
    \/ \E hp \in submit_hp(new_entity.hp.v) :
         \E init \in submit_init(new_entity.init.v, D20) :
           /\ highlight_state.some
           /\ new_ready
           /\ Len(entities) <= MaxRows
           /\ NewEntitySubmit(D20, hp, init)
    \/ highlight_state.some /\ EditList
    \/ highlight_state.some /\ NextTurn
    \/ highlight_state.some /\ PrevTurn

SpecDrift == InitGlow /\ [][NextDrift]_vars

\* SpecPair: the turn stepped forth and back, with the step before the last
\* one kept.  Combatants come from the saved encounter, use their reaction
\* and legendary actions and are deleted, and the turn is stepped.
InitPair == InitWith(EncounterDisk, NoFiles, HistoryPairs)

NextPair ==
    \/ entities = <<>> /\ LoadEnc(MaxRows)
    \/ \E i \in Rows : Reaction(row_idx(i))
    \/ \E i \in Rows : /\ minus_offered(row_idx(i))
                        /\ \E o \in leg_minus_outcomes(row_idx(i)) :
                              LegActionMinus(row_idx(i), o)
    \/ \E i \in Rows : DeleteEntity(row_idx(i))
    \/ NextTurn
    \/ PrevTurn

SpecPair == InitPair /\ [][NextPair]_vars

\* The Save Players button and the prompts of the parties: the name input,
\* the delete pick list and the submits view wires
PartyPrompts ==
    \/ SaveParty
    \/ \E name \in EncounterNames :
         /\ save_mode.kind \in {"SaveParty", "DeleteParty"}
         /\ PartyName(name)
    \/ \E name \in SaveNames :
         /\ \/ name \in listed(party_dir)
            \/ save_mode.kind = "DeleteParty" /\ save_mode.name = name
                 /\ save_mode.text = name
         /\ DeleteParty(name)

\* SpecProtocol: the save, delete and load prompts of encounters and
\* parties, with a saved encounter and a saved party on disk.  Prompts are
\* opened, given up for one another and completed; the encounter is loaded
\* into the empty list and the party while the list has room.
InitProtocol == InitWith(EncounterDisk, PartyDisk, HistoryOn)

NextProtocol ==
    \/ SaveEnc
    \/ DeleteEnc
    \/ entities = <<>> /\ LoadEnc(MaxRows)
    \/ \E hide \in BOOLEAN :
         /\ save_mode.kind = "LoadEncounter"
         /\ save_mode.rows # <<>>
         /\ EncounterHide(0, hide, "Name")
    \/ PartyPrompts
    \/ Len(entities) < MaxRows /\ LoadPty

SpecProtocol == InitProtocol /\ [][NextProtocol]_vars

\* SpecLoad: an encounter loaded into a list in use.  The saved encounter
\* is loaded while the list has room, combatants are deleted and the turn
\* is stepped; every step records the state before it.
NextLoad ==
    \/ LoadEnc(MaxEntities)
    \/ \E i \in Rows : DeleteEntity(row_idx(i))
    \/ NextTurn
    \/ PrevTurn

SpecLoad == InitTurn /\ [][NextLoad]_vars

\* SpecOrder: the order of a saved encounter.  Combatants of equal
\* initiative come from the saved encounter picked while the list is
\* empty, are moved and deleted, and the list is saved under a new name.
InitOrder == InitWith(GlowDisk, NoFiles, HistoryOn)

NextOrder ==
    \/ entities = <<>> /\ LoadEnc(MaxRows)
    \/ EditList
    \/ SaveEnc

SpecOrder == InitOrder /\ [][NextOrder]_vars

\* ----------------------------------------------------------------- claims

Init_v(es, k) == At(es, k).initiative.v

Old == last.entities

OldUids == {Old[k].uid : k \in 1..Len(Old)}

\* The Message handled last was NewEntitySubmit and it inserted a combatant
Inserted ==
    /\ last.msg = "NewEntitySubmit"
    /\ ~panicked
    /\ Len(entities) = Len(Old) + 1

\* The position of the combatant the last step inserted
NewPos == CHOOSE p \in 0..(Len(entities) - 1) : At(entities, p).uid \notin OldUids

NewInitiative == Init_v(entities, NewPos)

\* The last step removed the combatant at position last.idx
Deleted ==
    /\ last.msg = "DeleteEntity"
    /\ ~panicked

\* The combatant turn designates in list es, if any
Designated(es, t) == IF t < Len(es) THEN Some(At(es, t).uid) ELSE None

\* The position of the combatant with identity u in list es
PosOf(es, u) == CHOOSE p \in 0..(Len(es) - 1) : At(es, p).uid = u

\* C1: in every state reachable by adding, loading an encounter or a party,
\* deleting, stepping the turn and moving (moves only where view offers
\* them), the list is non-increasing in initiative at every adjacent pair.
C1_Sorted ==
    \A k \in 0..(Len(entities) - 2) : Init_v(entities, k) >= Init_v(entities, k + 1)

\* A full list that holds a loaded enemy, a loaded player character and an
\* added combatant, with a tie and a strict descent, and the turn stepped
C1_Witness ==
    /\ Len(entities) = MaxEntities
    /\ \E a, b, c \in 0..(Len(entities) - 1) :
         /\ At(entities, a).name.v = "boss"
         /\ At(entities, b).name.v = "pc"
         /\ At(entities, c).name.v = "orc"
    /\ \E k \in 0..(Len(entities) - 2) : Init_v(entities, k) = Init_v(entities, k + 1)
    /\ \E k \in 0..(Len(entities) - 2) : Init_v(entities, k) > Init_v(entities, k + 1)
    /\ turn = 1

\* C2 as stated: a combatant inserted with an initiative that combatants of
\* the list already have is placed immediately before the block of those.
C2_BeforeBlock ==
    (Inserted /\ \E k \in 0..(Len(Old) - 1) : Init_v(Old, k) = NewInitiative)
        => /\ NewPos + 1 < Len(entities)
           /\ Init_v(entities, NewPos + 1) = NewInitiative
           /\ NewPos > 0 => Init_v(entities, NewPos - 1) # NewInitiative

\* C2 amended: a combatant inserted with an initiative that combatants of
\* the list already have is placed immediately after the block of those:
\* its predecessor has the same initiative, every equal combatant precedes
\* it, and its successor, if any, has a strictly lower initiative.
C2_AfterBlock ==
    (Inserted /\ \E k \in 0..(Len(Old) - 1) : Init_v(Old, k) = NewInitiative)
        => /\ NewPos > 0
           /\ Init_v(entities, NewPos - 1) = NewInitiative
           /\ \A k \in 0..(Len(entities) - 1) :
                (k # NewPos /\ Init_v(entities, k) = NewInitiative) => k < NewPos
           /\ NewPos + 1 < Len(entities) => Init_v(entities, NewPos + 1) < NewInitiative

\* A 9 inserted into [9, 8]: it stands between the 9 and the 8
C2_Witness ==
    /\ Inserted
    /\ Len(Old) = 2 /\ Init_v(Old, 0) = 9 /\ Init_v(Old, 1) = 8
    /\ NewInitiative = 9
    /\ NewPos = 1

\* C3: insert_entity places the new combatant at the first position p whose
\* existing initiative is strictly less than the new one (p is the list
\* length if there is none) and leaves the existing combatants in their
\* order; and no step other than a manual move changes the relative order of
\* two combatants, so of two combatants with equal initiative the one
\* inserted first stays earlier.
C3_InsertPosition ==
    /\ Inserted =>
         /\ \A k \in 0..(NewPos - 1) : ~(Init_v(Old, k) < NewInitiative)
         /\ NewPos < Len(Old) => Init_v(Old, NewPos) < NewInitiative
         /\ \A k \in 0..(Len(Old) - 1) :
              At(entities, IF k < NewPos THEN k ELSE k + 1) = At(Old, k)
         /\ \A k \in 0..(Len(Old) - 1) :
              Init_v(Old, k) = NewInitiative => k < NewPos
    /\ (last.msg \notin {"Init", "MoveUp", "MoveDown"} /\ ~panicked) =>
         \A a, b \in 0..(Len(Old) - 1) :
           (/\ a < b
            /\ \E k \in 0..(Len(entities) - 1) : At(entities, k).uid = At(Old, a).uid
            /\ \E k \in 0..(Len(entities) - 1) : At(entities, k).uid = At(Old, b).uid)
             => PosOf(entities, At(Old, a).uid) < PosOf(entities, At(Old, b).uid)

\* A 10 inserted into [10, 10]: nothing is strictly less, it goes last
C3_Witness ==
    /\ Inserted
    /\ Len(Old) = 2 /\ Init_v(Old, 0) = 10 /\ Init_v(Old, 1) = 10
    /\ NewInitiative = 10
    /\ NewPos = Len(Old)

\* C4: for a non-empty list with turn at a valid position, an insertion at
\* position p increments turn exactly when p <= turn, and turn designates
\* the same combatant after the insertion as before.
C4_TurnFollowsInsert ==
    (Inserted /\ Len(Old) > 0 /\ last.turn < Len(Old))
        => /\ turn = IF NewPos <= last.turn THEN last.turn + 1 ELSE last.turn
           /\ Designated(entities, turn) = Designated(Old, last.turn)

\* [A(10), B(8)] with turn = 1, C(9) inserted: [A, C, B] with turn = 2
C4_Witness ==
    /\ Inserted
    /\ Len(Old) = 2 /\ Init_v(Old, 0) = 10 /\ Init_v(Old, 1) = 8
    /\ last.turn = 1
    /\ NewInitiative = 9 /\ NewPos = 1
    /\ turn = 2
    /\ At(entities, 2).uid = At(Old, 1).uid

\* C5 as stated: inserting a combatant into the empty list (turn = 0)
\* inserts it at position 0 and leaves turn equal to 0.
C5_EmptyInsertKeepsTurn ==
    (Inserted /\ Old = <<>> /\ last.turn = 0)
        => /\ NewPos = 0
           /\ turn = 0

\* C6 as stated: in every reachable state turn is a valid list position
\* (turn < number of combatants) whenever the list is non-empty, and turn = 0
\* whenever the list is empty.
C6_TurnValid ==
    /\ Len(entities) > 0 => turn < Len(entities)
    /\ Len(entities) = 0 => turn = 0

\* C7: deleting the combatant at an index strictly less than turn decrements
\* turn by 1, deleting at an index greater than turn leaves turn unchanged,
\* and in both cases turn designates the same combatant after the delete as
\* before.
C7_TurnFollowsDelete ==
    Deleted =>
        /\ last.idx < last.turn =>
             /\ turn = last.turn - 1
             /\ Designated(entities, turn) = Designated(Old, last.turn)
        /\ last.idx > last.turn =>
             /\ turn = last.turn
             /\ Designated(entities, turn) = Designated(Old, last.turn)
             /\ Designated(entities, turn).some

\* [A, B, C] with turn = 2, the combatant at index 0 deleted: turn = 1, still C
C7_Witness ==
    /\ Deleted
    /\ Len(Old) = 3 /\ last.turn = 2 /\ last.idx = 0
    /\ turn = 1
    /\ Len(entities) = 2
    /\ At(entities, 1).uid = At(Old, 2).uid

\* C8 as stated: deleting the combatant at index = turn leaves turn
\* unchanged, and afterwards turn points at the combatant that immediately
\* followed the deleted one, for every position of the deleted combatant,
\* the last position of the list included.
C8_DeleteAtTurn ==
    (Deleted /\ last.idx = last.turn /\ Len(entities) > 0)
        => /\ turn = last.turn
           /\ Designated(entities, turn).some
           /\ last.idx + 1 < Len(Old) =>
                Designated(entities, turn) = Designated(Old, last.idx + 1)

\* C9: from every reachable state whose list holds exactly one combatant,
\* deleting that combatant leaves turn = 0 and the list empty, and NextTurn
\* and PrevTurn on the empty list complete (no division by zero) with
\* turn = 0.
C9_DeleteLast ==
    /\ (last.msg = "DeleteEntity" /\ Len(Old) = 1) =>
         /\ ~panicked
         /\ entities = <<>>
         /\ turn = 0
    /\ (last.msg \in {"NextTurn", "PrevTurn"} /\ Old = <<>>) =>
         /\ ~panicked
         /\ entities = <<>>
         /\ turn = 0

\* The only combatant deleted while turn was 1
C9_Witness ==
    /\ Deleted
    /\ Len(Old) = 1 /\ last.turn = 1 /\ last.idx = 0
    /\ entities = <<>>
    /\ turn = 0

\* The fields of a combatant NextTurn never writes
SameButTurnFields(e, o) ==
    /\ e.uid = o.uid
    /\ e.name = o.name
    /\ e.hp = o.hp
    /\ e.damage = o.damage
    /\ e.heal = o.heal
    /\ e.concentrating = o.concentrating
    /\ e.initiative = o.initiative
    /\ e.legendary_actions.some = o.legendary_actions.some
    /\ e.legendary_actions.some =>
         /\ e.legendary_actions.v.hidden = o.legendary_actions.v.hidden
         /\ e.legendary_actions.v.v.tot = o.legendary_actions.v.v.tot

\* C10: NextTurn sets reaction_free to true and, if there is a legendary
\* budget, left to tot on the combatant at the new turn index, and changes
\* nothing else: every other combatant, every combatant's hit points,
\* initiative and concentrating flag, and the order of the list are
\* unchanged.
C10_NextTurnFrame ==
    last.msg = "NextTurn" =>
        /\ ~panicked
        /\ Len(entities) = Len(Old)
        /\ \A k \in 0..(Len(Old) - 1) :
             IF k # turn THEN At(entities, k) = At(Old, k)
             ELSE /\ SameButTurnFields(At(entities, k), At(Old, k))
                  /\ At(entities, k).reaction_free
                  /\ At(entities, k).legendary_actions.some =>
                       At(entities, k).legendary_actions.v.v.left
                           = At(Old, k).legendary_actions.v.v.tot

\* NextTurn landed on a concentrating combatant whose reaction was used and
\* whose legendary actions were spent, next to one whose reaction stays used
C10_Witness ==
    /\ last.msg = "NextTurn"
    /\ Len(entities) = 2
    /\ ~At(Old, turn).reaction_free
    /\ At(Old, turn).concentrating
    /\ At(Old, turn).legendary_actions.some
    /\ At(Old, turn).legendary_actions.v.v.left = 0
    /\ At(entities, turn).legendary_actions.v.v.left = 2
    /\ At(entities, turn).reaction_free
    /\ ~At(entities, 1 - turn).reaction_free

\* The positions a run of consecutive NextTurn Messages landed on, the turn
\* it has just reached included
Landings == Tail(last.run) \o <<turn>>

\* Every combatant has its reaction and its whole legendary budget
AllReset(es) ==
    \A k \in 0..(Len(es) - 1) :
        /\ At(es, k).reaction_free
        /\ At(es, k).legendary_actions.some =>
             At(es, k).legendary_actions.v.v.left = At(es, k).legendary_actions.v.v.tot

\* C11: on a list of length N > 0 NextTurn sets turn to (turn + 1) mod N;
\* N consecutive NextTurn Messages that start at turn = 0 land on every
\* position exactly once, leave every combatant with its reaction and its
\* legendary actions reset, and return turn to 0.
C11_NextTurnCycle ==
    (last.msg = "NextTurn" /\ Len(Old) > 0) =>
        /\ ~panicked
        /\ turn = (last.turn + 1) % Len(Old)
        /\ Len(last.run) = Len(Old) =>
             /\ turn = 0
             /\ \A p \in 0..(Len(Old) - 1) :
                  Cardinality({k \in 1..Len(Landings) : Landings[k] = p}) = 1
             /\ AllReset(entities)

\* Two NextTurn Messages in a row from turn = 0 on a list of two whose
\* legendary actions had been spent: positions 1 and 0, back at turn 0
C11_Witness ==
    /\ last.msg = "NextTurn"
    /\ Len(Old) = 2
    /\ last.run = <<0, 1>>
    /\ turn = 0
    /\ \E k \in 0..1 : /\ At(Old, k).legendary_actions.some
                       /\ At(Old, k).legendary_actions.v.v.left = 0
                       /\ k = turn
    /\ AllReset(entities)

\* C12: on the empty list NextTurn and PrevTurn both complete (no division
\* by zero, no index error, no underflow) and leave turn equal to 0, the
\* value it had, and the list empty.
C12_EmptyListTurn ==
    (last.msg \in {"NextTurn", "PrevTurn"} /\ Len(Old) = 0) =>
        /\ last.turn = 0
        /\ ~panicked
        /\ turn = last.turn
        /\ Len(entities) = 0

\* PrevTurn handled on the empty list
C12_Witness ==
    /\ last.msg = "PrevTurn"
    /\ Len(Old) = 0
    /\ last.turn = 0
    /\ turn = 0
    /\ ~panicked

\* C13: PrevTurn sets turn to turn - 1, to (list length - 1) when turn = 0,
\* to 0 when the list is empty, and changes no combatant: reaction flags,
\* legendary remaining, hit points and the order of the list are unchanged.
C13_PrevTurnFrame ==
    last.msg = "PrevTurn" =>
        /\ ~panicked
        /\ turn = IF Len(Old) = 0 THEN 0
                  ELSE IF last.turn = 0 THEN Len(Old) - 1
                  ELSE last.turn - 1
        /\ entities = Old

\* PrevTurn wrapped from turn = 0 to the last of two combatants, one of which
\* has a used reaction and spent legendary actions
C13_Witness ==
    /\ last.msg = "PrevTurn"
    /\ Len(Old) = 2
    /\ last.turn = 0
    /\ turn = 1
    /\ \E k \in 0..1 : /\ ~At(entities, k).reaction_free
                       /\ At(entities, k).legendary_actions.some
                       /\ At(entities, k).legendary_actions.v.v.left = 0

\* C14: MoveUp(i) exchanges exactly the combatants at positions i and i - 1,
\* MoveDown(i) exactly those at i and i + 1; turn, every other position of
\* the list and every field of the two moved combatants are unchanged.
C14_MoveSwaps ==
    (last.msg \in {"MoveUp", "MoveDown"} /\ ~panicked) =>
        LET i == last.idx
            j == IF last.msg = "MoveUp" THEN last.idx - 1 ELSE last.idx + 1
        IN  /\ j >= 0 /\ j < Len(Old) /\ i < Len(Old)
            /\ turn = last.turn
            /\ Len(entities) = Len(Old)
            /\ At(entities, i) = At(Old, j)
            /\ At(entities, j) = At(Old, i)
            /\ \A k \in 0..(Len(Old) - 1) :
                 (k # i /\ k # j) => At(entities, k) = At(Old, k)

\* MoveUp(2) on a list of three: the combatants at 1 and 2 changed places,
\* the one at 0 and the turn stayed
C14_Witness ==
    /\ last.msg = "MoveUp"
    /\ ~panicked
    /\ Len(Old) = 3
    /\ last.idx = 2
    /\ last.turn = 2
    /\ turn = 2
    /\ At(entities, 1).uid = At(Old, 2).uid
    /\ At(entities, 2).uid = At(Old, 1).uid
    /\ At(entities, 1).uid # At(entities, 2).uid
    /\ At(entities, 0) = At(Old, 0)

\* C15: in every state, for every row of the table, with idx the list
\* position the row shows: move-up is offered iff idx > 0 and the combatant
\* at idx - 1 has the same initiative, move-down iff idx < length - 1 and the
\* combatant at idx + 1 has the same initiative; the rows show every list
\* position once; and no MoveUp(0) or MoveDown(length - 1) is ever handled.
C15_MoveFlags ==
    /\ \A i \in Rows :
         LET idx == row_idx(i)
         IN  /\ move_up(entities, idx) <=>
                  (idx > 0 /\ Init_v(entities, idx - 1) = Init_v(entities, idx))
             /\ move_down(entities, idx) <=>
                  (idx < Len(entities) - 1
                     /\ Init_v(entities, idx + 1) = Init_v(entities, idx))
    /\ {row_idx(i) : i \in Rows} = 0..(Len(entities) - 1)
    /\ last.msg = "MoveUp" => (last.idx > 0 /\ ~panicked)
    /\ last.msg = "MoveDown" => (last.idx < Len(Old) - 1 /\ ~panicked)

\* A rotated table (turn = 1) of three whose first two combatants tie: the
\* row of position 1 offers move-up only, the row of position 0 move-down only
C15_Witness ==
    /\ Len(entities) = 3
    /\ turn = 1
    /\ Init_v(entities, 0) = Init_v(entities, 1)
    /\ Init_v(entities, 1) > Init_v(entities, 2)
    /\ move_up(entities, 1) /\ ~move_down(entities, 1)
    /\ move_down(entities, 0) /\ ~move_up(entities, 0)
    /\ ~move_up(entities, 2) /\ ~move_down(entities, 2)

\* C16: Damage(i) with a pending amount a sets the hit points to
\* max(hp - a, 0), never negative and never wrapped, clears the pending
\* amount and changes nothing else of the list; with no pending amount it
\* changes nothing and issues no Command.
C16_DamageSaturates ==
    last.msg = "Damage" =>
        /\ ~panicked
        /\ turn = last.turn
        /\ Len(entities) = Len(Old)
        /\ \A k \in 0..(Len(Old) - 1) : k # last.idx => At(entities, k) = At(Old, k)
        /\ LET o == At(Old, last.idx)
               e == At(entities, last.idx)
           IN  IF o.damage = Empty
               THEN e = o /\ Len(commands) = last.sent
               ELSE /\ e.hp.v = Max2(o.hp.v - DigitsValue(o.damage), 0)
                    /\ e.hp.v >= 0 /\ e.hp.v <= o.hp.v
                    /\ e = [o EXCEPT !.hp.v = e.hp.v, !.damage = Empty]

\* More damage than the 5 hit points the combatant has: 0 hit points, while
\* the other combatant keeps its hit points and its pending damage
C16_Witness ==
    /\ last.msg = "Damage"
    /\ Len(Old) = 2
    /\ At(Old, last.idx).hp.v = 5
    /\ At(Old, last.idx).damage = Decimal(U32Max - 5)
    /\ At(entities, last.idx).hp.v = 0
    /\ At(entities, last.idx).damage = Empty
    /\ At(entities, 1 - last.idx).damage = Decimal(U32Max)
    /\ At(entities, 1 - last.idx).hp.v = U32Max

\* C17 as stated: Heal(i) with a pending amount a sets the hit points to
\* hp + a, for every hp and every amount the heal input accepts, without
\* wrapping and without aborting.
C17_HealAdds ==
    (last.msg = "Heal" /\ At(Old, last.idx).heal # Empty) =>
        /\ ~panicked
        /\ At(entities, last.idx).hp.v
              = At(Old, last.idx).hp.v + DigitsValue(At(Old, last.idx).heal)
        /\ At(entities, last.idx).heal = Empty

\* C18: in every state reachable by LegActionMinus and LegActionPlus (where
\* view offers them), NextTurn, adding and loading, every combatant with a
\* legendary-action budget has 0 <= left <= tot.
C18_LegendaryInRange ==
    \A k \in 0..(Len(entities) - 1) :
        At(entities, k).legendary_actions.some =>
            /\ 0 <= At(entities, k).legendary_actions.v.v.left
            /\ At(entities, k).legendary_actions.v.v.left
                  <= At(entities, k).legendary_actions.v.v.tot

\* An added combatant that has spent its one action, next to the loaded one
\* that has one of two left and to one without a budget
C18_Witness ==
    /\ Len(entities) = 3
    /\ \E a, b, c \in 0..2 :
         /\ At(entities, a).name.v = "orc"
         /\ At(entities, a).legendary_actions.some
         /\ At(entities, a).legendary_actions.v.v.tot = 1
         /\ At(entities, a).legendary_actions.v.v.left = 0
         /\ At(entities, b).name.v = "boss"
         /\ At(entities, b).legendary_actions.v.v.tot = 2
         /\ At(entities, b).legendary_actions.v.v.left = 1
         /\ ~At(entities, c).legendary_actions.some

\* C19 as stated: the handlers clamp.  LegActionMinus on a combatant with
\* left = 0 leaves left = 0, LegActionPlus on a combatant with left = tot
\* leaves left = tot, and either on a combatant without a budget changes
\* nothing; none of them aborts.
C19_HandlersClamp ==
    last.msg \in {"LegActionMinus", "LegActionPlus"} =>
        LET o == At(Old, last.idx)
        IN  /\ (o.legendary_actions.some /\ last.msg = "LegActionMinus"
                   /\ o.legendary_actions.v.v.left = 0)
                  => (~panicked /\ entities = Old)
            /\ (o.legendary_actions.some /\ last.msg = "LegActionPlus"
                   /\ o.legendary_actions.v.v.left = o.legendary_actions.v.v.tot)
                  => (~panicked /\ entities = Old)
            /\ ~o.legendary_actions.some => (~panicked /\ entities = Old)

\* What a saved encounter keeps of a combatant
Stats(e) ==
    [ name       |-> e.name,
      hp         |-> e.hp,
      initiative |-> e.initiative,
      budget     |-> IF e.legendary_actions.some
                     THEN Some(Hidden(e.legendary_actions.v.v.tot,
                                      e.legendary_actions.v.hidden))
                     ELSE None ]

\* The last step confirmed the load of the encounter saved last under a
\* name that had no file, into the empty list
LoadedSaved ==
    /\ last.msg = "LoadEncounter"
    /\ ~panicked
    /\ last.mode.kind = "LoadEncounter"
    /\ last.mode.name = last.name
    /\ Old = <<>>
    /\ last.saved.some
    /\ last.saved.v.name = last.name

\* C20: saving the list as an encounter under a name that has no file and
\* then loading that encounter into the empty list yields as many combatants
\* as were saved, with the same names, hit points, initiatives, hidden flags
\* and legendary totals, and with every legendary remaining equal to its
\* total, whatever the remaining values and the turn were when saving.
C20_SaveLoadRoundTrip ==
    LoadedSaved =>
        LET was == last.saved.v.entities
        IN  /\ Len(entities) = Len(was)
            /\ \A k \in 1..Len(was) :
                 Cardinality({j \in 1..Len(was) : Stats(was[j]) = Stats(was[k])})
                   = Cardinality({j \in 1..Len(entities) :
                                     Stats(entities[j]) = Stats(was[k])})
            /\ \A k \in 1..Len(entities) :
                 entities[k].legendary_actions.some =>
                     entities[k].legendary_actions.v.v.left
                         = entities[k].legendary_actions.v.v.tot

\* Two combatants saved away from turn 0 while one had 1 of its 2 legendary
\* actions left, loaded again with 2 of 2
C20_Witness ==
    /\ LoadedSaved
    /\ Len(last.saved.v.entities) = 2
    /\ last.saved.v.turn # 0
    /\ \E k \in 1..2 :
         /\ last.saved.v.entities[k].legendary_actions.some
         /\ last.saved.v.entities[k].legendary_actions.v.v.left = 1
         /\ entities[k].name = last.saved.v.entities[k].name
         /\ entities[k].legendary_actions.v.v.left = 2

\* The last Message confirmed the load that was open
Confirming ==
    /\ last.msg \in {"LoadEncounter", "LoadParty"}
    /\ last.mode.kind = last.msg
    /\ last.mode.name = last.name

\* C21 as stated: after a load step (the pick of a save, the confirmation
\* of the open load, or the pick of another save that gives the open load
\* up) the list is what it was, or has grown by every row of the load.
C21_LoadAllOrNothing ==
    last.msg \in {"LoadEncounter", "LoadParty"} =>
        \/ entities = Old
        \/ Confirming /\ Len(entities) = Len(Old) + Len(last.mode.rows)

\* C24 as stated: the LoadParty step that confirms the open party prompt
\* runs only with an initiative entered for every character of the party,
\* and completes without aborting.
C24_PartyInitiativesEntered ==
    (Confirming /\ last.msg = "LoadParty") =>
        /\ \A k \in 1..Len(last.mode.rows) : last.mode.rows[k].text # Empty
        /\ ~panicked

\* C22 as stated: a load pick whose file is missing or is not JSON of the
\* expected shape does not abort, and leaves the list and the turn as they
\* were.
C22_LoadFailureSurfaced ==
    /\ (last.msg = "LoadEncounter" /\ ~Confirming
           /\ read_rows(encounter_dir, last.name).kind = "Panic")
          => (~panicked /\ entities = Old /\ turn = last.turn)
    /\ (last.msg = "LoadParty" /\ ~Confirming
           /\ read_rows(party_dir, last.name).kind = "Panic")
          => (~panicked /\ entities = Old /\ turn = last.turn)

\* C23 as stated: whenever a DeleteEncounter step removes the file of a
\* saved encounter, the text of the confirmation input equalled the name of
\* that encounter when the step was taken.
C23_DeleteAfterRetyping ==
    (last.msg = "DeleteEncounter" /\ last.mode.kind = "DeleteEncounter"
        /\ last.mode.name = last.name
        /\ last.name \notin DOMAIN encounter_dir)
      => last.mode.text = last.name

\* C25: Damage(i) with a pending amount issues one HighlightConcentration
\* Command, for combatant i, if combatant i is concentrating when the
\* Message is handled, and none if it is not; Damage with no pending
\* amount, Heal and the edits of the damage and heal inputs issue none.
C25_HighlightOnDamage ==
    /\ (last.msg = "Damage" /\ At(Old, last.idx).damage # Empty) =>
          IF At(Old, last.idx).concentrating
          THEN /\ Len(commands) = last.sent + 1
               /\ commands[Len(commands)].i = last.idx
          ELSE Len(commands) = last.sent
    /\ (last.msg = "Damage" /\ At(Old, last.idx).damage = Empty) =>
          Len(commands) = last.sent
    /\ last.msg \in {"Heal", "EditDamage", "EditHealing"} =>
          Len(commands) = last.sent

\* Damage was dealt to the concentrating combatant at position 1, and its
\* Command is in flight; the combatant at position 0 took damage before
\* without one
C25_Witness ==
    /\ last.msg = "Damage"
    /\ last.idx = 1
    /\ At(Old, 1).damage # Empty
    /\ At(Old, 1).concentrating
    /\ ~At(Old, 0).concentrating
    /\ At(Old, 0).hp.v = 0
    /\ last.sent = 0
    /\ Len(commands) = 1

\* The text buffers the handlers parse are well-formed
BuffersWellFormed ==
    /\ \A k \in 1..Len(entities) :
         /\ entities[k].damage = Empty \/ parse_u32(entities[k].damage).some
         /\ entities[k].heal = Empty \/ parse_u32(entities[k].heal).some
    /\ \/ new_entity.init.v \in {Empty, <<"+">>, <<"-">>}
       \/ parse_i32(new_entity.init.v).some
    /\ new_entity.hp.v = Empty \/ Hp_from_str(new_entity.hp.v).some
    /\ new_entity.leg_acts.v = Empty \/ parse_u32(new_entity.leg_acts.v).some

\* C26: in every reachable state each pending damage and heal is empty or
\* a u32, the initiative buffer of the form is empty, a sign or an i32, its
\* hp buffer is empty or a dice expression, and its legendary buffer is
\* empty or a u32; and when Damage, Heal or NewEntitySubmit aborts, every
\* text it parsed was one of these.
C26_BuffersWellFormed ==
    /\ BuffersWellFormed
    /\ last.msg = "Damage" => ~panicked
    /\ (last.msg = "Heal" /\ panicked) => parse_u32(At(Old, last.idx).heal).some
    /\ (last.msg = "NewEntitySubmit" /\ panicked) =>
          /\ last.form.hp.v = Empty \/ Hp_from_str(last.form.hp.v).some
          /\ last.form.leg_acts.v = Empty \/ parse_u32(last.form.leg_acts.v).some
          /\ \/ last.form.init.v = Empty
             \/ last.form.init.v[1] \in {"+", "-"}
             \/ parse_u32(last.form.init.v).some

\* A combatant was created from a form that held a sign, a roll and a
\* legendary budget
C26_Witness ==
    /\ last.msg = "NewEntitySubmit"
    /\ ~panicked
    /\ last.form.init.v = <<"-">>
    /\ last.form.hp.v = <<"1", "d", "2">>
    /\ last.form.leg_acts.v = <<"1">>
    /\ Len(entities) = 1
    /\ entities[1].legendary_actions.some

\* C27 as stated: the submission of a form whose hp text is NdM+P, for
\* every N, M and P in the ranges, completes, and the combatant it creates
\* has hit points in [N + P, N * M + P].
C27_RollInRange ==
    (last.msg = "NewEntitySubmit" /\ last.form.name.v # "") =>
        LET parts == Hp_from_str(last.form.hp.v).v
            N == parts[1].n
            M == parts[1].d
            P == parts[2].n
        IN  /\ ~panicked
            /\ Len(entities) = 1
            /\ entities[1].hp.v \in (N + P)..(N * M + P)

\* C29 as stated: gen_range is drawn for the hp text only while
\* NewEntitySubmit is handled: never while a text is edited, and never while
\* the window is rendered.
C29_ResolvedOnSubmitOnly ==
    last.msg # "NewEntitySubmit" => last.drawn = 0

\* The text parses as a dice expression with an unfinished roll
Incomplete(text) ==
    /\ Hp_from_str(text).some
    /\ \E k \in 1..Len(Hp_from_str(text).v) :
         Hp_from_str(text).v[k].kind = "RollInProgress"

\* C28: "2d" parses, to an unfinished roll (neither a parse error nor a
\* number); while a part of the hp text is an unfinished roll the submit of
\* the form is not wired; and no NewEntitySubmit creates a combatant from
\* an hp text with an unfinished roll.
C28_IncompleteNotSubmitted ==
    /\ Hp_from_str(<<"2", "d">>) = Some(<<HpRollInProgress(2)>>)
    /\ Incomplete(new_entity.hp.v) => ~new_ready
    /\ (last.msg = "NewEntitySubmit" /\ Len(entities) > Len(Old)) =>
          ~Incomplete(last.form.hp.v)

\* "2d" has just been typed into the form, which has a name: the submit is
\* not wired
C28_Witness ==
    /\ last.msg = "NewHp"
    /\ new_entity.hp.v = <<"2", "d">>
    /\ last.form.hp.v = <<"1", "d", "2">>
    /\ new_entity.name.v # ""
    /\ ~new_ready

\* The values a hidden stat could have as well
OtherNames == {"boss", "gob", "orc"}
OtherValues == {0, 1, U32Max}

\* C30 as stated: with the DM view off, what a row shows for a hidden stat
\* is the same whatever the value of that stat is.
C30_HiddenNotShown ==
    ~dm_view =>
        \A k \in 1..Len(entities) :
            LET e == entities[k]
            IN  /\ e.name.hidden =>
                     \A n \in OtherNames :
                        shown_name([e EXCEPT !.name.v = n], FALSE)
                            = shown_name(e, FALSE)
                /\ e.hp.hidden =>
                     \A v \in OtherValues :
                        shown_hp([e EXCEPT !.hp.v = v], FALSE) = shown_hp(e, FALSE)
                /\ (e.legendary_actions.some /\ e.legendary_actions.v.hidden) =>
                     \A l \in 0..e.legendary_actions.v.v.tot :
                        shown_legendary_actions(
                            [e EXCEPT !.legendary_actions.v.v.left = l], FALSE)
                          = shown_legendary_actions(e, FALSE)
                /\ e.initiative.hidden =>
                     \A v \in OtherValues :
                        shown_initiative([e EXCEPT !.initiative.v = v], FALSE)
                            = shown_initiative(e, FALSE)

\* C31 as stated: a NewEntitySubmit of a named form completes, for every
\* initiative text NewInit accepts; for an empty text, a sign or a signed
\* modifier m the initiative of the new combatant is max(0, r + m) for a
\* roll r in 1..20, and for an unsigned number it is that number.
C31_InitiativeFromRoll ==
    (last.msg = "NewEntitySubmit" /\ last.form.name.v # "") =>
        LET text == last.form.init.v
        IN  /\ ~panicked
            /\ Inserted
            /\ IF text = Empty \/ text[1] \in {"+", "-"}
               THEN \E r \in 1..D20 :
                      NewInitiative = Max2(0, r + unwrap_or(parse_i32(text), 0))
               ELSE NewInitiative = DigitsValue(text)

\* C32: in every reachable state turn <= number of combatants, the bound
\* entities.split_at_mut(turn) needs in view.
C32_TurnWithinList ==
    turn <= Len(entities)

\* turn has reached the number of combatants of a non-empty list: the
\* split leaves every combatant in its first half
C32_Witness ==
    /\ ~panicked
    /\ Len(entities) > 1
    /\ turn = Len(entities)

\* C33 as stated: rendering the window never aborts; in particular not while
\* a highlight is pending and every combatant has been deleted.
C33_RenderNeverAborts ==
    last.msg = "view" => ~panicked

\* C34: a highlight Command in flight leads to the state with no Command
\* in flight and an empty highlight state, provided the Commands are
\* delivered and time advances; with no Command in flight the highlight
\* state is empty (it stays empty until damage issues the next Command:
\* only a HighlightConcentration Message changes it); and handling
\* HighlightConcentration changes nothing of the state but the highlight
\* state.  Highlights may overlap.
C34_HighlightEnds ==
    /\ (commands # <<>>) ~> (commands = <<>> /\ highlight_state = None)
    /\ [](commands = <<>> => highlight_state = None)
    /\ [][last'.msg = "HighlightConcentration" /\ last' # last
            => UNCHANGED <<entities, turn, new_entity, saveVars, panicked, dm_view>>]_vars
    /\ [][highlight_state' # highlight_state
            => last'.msg = "HighlightConcentration"]_vars

\* One of two overlapping highlights has just run out: its Message cleared
\* the highlight state while the other Command is still in flight
C34_Witness ==
    /\ last.msg = "HighlightConcentration"
    /\ last.sent = MaxChains
    /\ Len(commands) = MaxChains - 1
    /\ highlight_state = None
    /\ \E k \in 1..Len(commands) : commands[k].highlight_done > now

\* C35 as stated: while a highlight is set and the combatant whose damage
\* started it is in the list, the row view highlights is the row of that
\* combatant.
C35_HighlightFollows ==
    (/\ ~panicked
     /\ highlight_state.some
     /\ last.hit.some
     /\ \E k \in 1..Len(entities) : entities[k].uid = last.hit.v)
        => LET h == highlight(highlight_state, turn, Len(entities))
           IN  row_entity(entities, turn, h.v).uid = last.hit.v

\* C36: when PrevTurn is handled right after NextTurn on a non-empty list,
\* turn modulo the list length is what it was before the pair and the
\* first row shows the same combatant as before the pair, while the list
\* is as NextTurn left it: the combatant NextTurn landed on keeps its
\* reaction and its full legendary budget.
C36_NextPrevRestores ==
    (/\ last.msg = "PrevTurn"
     /\ last.before.msg = "NextTurn"
     /\ Len(last.before.entities) > 0)
        => LET n == Len(entities)
               landed == At(entities, last.turn)
           IN  /\ turn % n = last.before.turn % n
               /\ row_entity(entities, turn, 0).uid
                     = row_entity(last.before.entities, last.before.turn, 0).uid
               /\ entities = last.entities
               /\ landed = start_turn(At(last.before.entities, last.turn))
               /\ landed.reaction_free

\* The pair was taken from the last position of a list of two whose first
\* combatant had used its reaction and a legendary action: turn is back at
\* the last position and the first combatant is reset
C36_Witness ==
    /\ last.msg = "PrevTurn"
    /\ last.before.msg = "NextTurn"
    /\ Len(entities) = 2
    /\ last.before.turn = 1
    /\ turn = 1
    /\ ~At(last.before.entities, 0).reaction_free
    /\ At(last.before.entities, 0).legendary_actions.v.v.left = 1
    /\ At(entities, 0).reaction_free
    /\ At(entities, 0).legendary_actions.v.v.left = 2

\* C37 as stated: picking a saved encounter in the load pick list, whatever
\* saves were made under its name before, completes and opens the preview
\* of exactly the records the most recent save under that name wrote.
C37_SaveReplaces ==
    (/\ last.msg = "LoadEncounter"
     /\ ~Confirming
     /\ last.name \in DOMAIN encounter_dir)
        => /\ ~panicked
           /\ save_mode = SM_LoadEncounter(last.name, encounter_dir[last.name].rows)

\* The Messages of the save, delete and load prompts
ProtocolMessages ==
    {"SaveEncounter", "EncounterName", "DeleteEncounter", "LoadEncounter",
     "EncounterHide", "SaveParty", "PartyName", "DeleteParty", "LoadParty",
     "PcInitiative"}

\* The last Message completed a save, a delete or a load
Completed ==
    \/ last.msg \in {"SaveEncounter", "SaveParty"}
         /\ last.mode.kind = last.msg /\ last.mode.text # ""
    \/ last.msg \in {"DeleteEncounter", "DeleteParty"}
         /\ last.mode.kind = last.msg /\ last.mode.name = last.name
    \/ Confirming

\* C38: a Message of the save, delete and load prompts that is not the
\* confirmation of the open load leaves the list and the turn as they were
\* (also when it replaces an open prompt or preview by another), and a
\* Message that completes a save, a delete or a load leaves the mode None.
C38_ProtocolFrame ==
    /\ (last.msg \in ProtocolMessages /\ ~Confirming)
          => (entities = Old /\ turn = last.turn)
    /\ (Completed /\ ~panicked) => save_mode = SM_None

\* The party prompt, with an initiative entered, has just been given up for
\* the encounter save prompt while combatants are in the list: the rows of
\* the prompt are gone and the list is as it was
C38_Witness ==
    /\ last.msg = "SaveEncounter"
    /\ last.mode.kind = "LoadParty"
    /\ last.mode.rows # <<>>
    /\ last.mode.rows[1].text # Empty
    /\ save_mode = SM_SaveEncounter("")
    /\ entities # <<>>
    /\ entities = Old

C40_SavedOrderKept ==
    LoadedSaved =>
        LET was == last.saved.v.entities
        IN  /\ Len(entities) = Len(was)
            /\ \A k \in 1..Len(was) : Stats(entities[k]) = Stats(was[k])

\* Two combatants of equal initiative, swapped by a move before the save
\* (on disk boss comes first), loaded again in the swapped order
C40_Witness ==
    /\ LoadedSaved
    /\ Len(last.saved.v.entities) = 2
    /\ last.saved.v.entities[1].name.v = "gob"
    /\ last.saved.v.entities[2].name.v = "boss"
    /\ last.saved.v.entities[1].initiative.v = last.saved.v.entities[2].initiative.v
    /\ entities[1].name.v = "gob"
    /\ entities[2].name.v = "boss"

====
